---- MODULE Spec2Model ----
(***************************************************************************)
(* PMS-Auto-Updater: the hierarchical locator, the axis extractor, the     *)
(* source item extractor, the structure indexer, the update planner, the   *)
(* cache of the structure index and the synchronizer of src/tra5_core.py,  *)
(* as a state machine over the runs of the pipeline on one PMS file.       *)
(*                                                                         *)
(* Cell text is a sequence of one-character strings, so that strip, upper, *)
(* lower, whitespace removal and the substring test are computed the way   *)
(* the Python code computes them.  An absent cell (None) is the value None.*)
(***************************************************************************)
EXTENDS Integers, Sequences, FiniteSets, TLC

VARIABLES
    ws,              \* the PMS sheet: sequence of rows [outlineLevel, text]
    pnt,             \* the PNT-G sheet: rows ROW_START .. ROW_END - 1
    pc,              \* position of the run
    all_results,     \* dict of _search_all_mohors, in insertion order
    calls,           \* locals of the find_items call of each axis
    item_locations,  \* the StructureIndex
    axis_log,        \* value returned by each extract_from_row call, by row
    items_by_axis,   \* dict axis -> items, in insertion order
    unidentified,    \* rows without axis
    updates,
    not_found,
    warnings,
    results,         \* the result of each _match_item call, in call order
    use_cache,       \* config.USE_CACHE
    dry_run,         \* ProcessWorker.dry_run
    cache,           \* the cache file: <<>> when absent, else <<cache_data>>
    mtime,           \* modification time of the PMS file
    cached_data,     \* what load_cache returned: <<>> for None, else <<dict>>
    indexer_ran,     \* whether extract_all_items of the reader ran in this run
    sync_log,        \* per plan entry processed by _process_updates
    stats,           \* the stats returned by _process_updates
    summary,         \* the returned results: <<>> before, else <<dict>>
    second_run,      \* whether this is the second run on the file
    first_doc,       \* the PMS sheet in the file when the second run began
    text_in,         \* a text handed to normalize_standard
    norm_results     \* the results of normalize_standard applied in turn

vars == <<ws, pnt, pc, all_results, calls, item_locations, axis_log,
          items_by_axis, unidentified, updates, not_found, warnings, results,
          use_cache, dry_run, cache, mtime, cached_data, indexer_ran,
          sync_log, stats, summary, second_run, first_doc, text_in,
                   norm_results>>

-----------------------------------------------------------------------------
(* Python values *)

None == <<"None">>

NoRow == 0

Whitespace == {" ", "\n", "\r", "\t"}

UpperLetters == <<"A", "B", "C", "F", "G", "I", "L", "P", "S", "T", "X">>

LowerLetters == <<"a", "b", "c", "f", "g", "i", "l", "p", "s", "t", "x">>

CharLower(c) ==
    IF \E k \in DOMAIN UpperLetters : UpperLetters[k] = c
    THEN LowerLetters[CHOOSE k \in DOMAIN UpperLetters : UpperLetters[k] = c]
    ELSE c

CharUpper(c) ==
    IF \E k \in DOMAIN LowerLetters : LowerLetters[k] = c
    THEN UpperLetters[CHOOSE k \in DOMAIN LowerLetters : LowerLetters[k] = c]
    ELSE c

Lower(s) == [i \in 1..Len(s) |-> CharLower(s[i])]

Upper(s) == [i \in 1..Len(s) |-> CharUpper(s[i])]

RECURSIVE LStrip(_)
LStrip(s) ==
    IF s # <<>> /\ Head(s) \in Whitespace THEN LStrip(Tail(s)) ELSE s

RECURSIVE RStrip(_)
RStrip(s) ==
    IF s # <<>> /\ s[Len(s)] \in Whitespace
    THEN RStrip(SubSeq(s, 1, Len(s) - 1))
    ELSE s

\* str.strip()
Strip(s) == RStrip(LStrip(s))

\* sub in s
Contains(sub, s) ==
    \E i \in 0..(Len(s) - Len(sub)) : SubSeq(s, i + 1, i + Len(sub)) = sub

IsSpace(c) == c \in Whitespace

NotSpace(c) == c \notin Whitespace

Digit(d) == <<"0", "1", "2", "3", "4", "5", "6", "7", "8", "9">>[d + 1]

\* str(n) of a non-negative integer
RECURSIVE Str(_)
Str(n) == IF n < 10 THEN <<Digit(n)>> ELSE Str(n \div 10) \o <<Digit(n % 10)>>

-----------------------------------------------------------------------------
(* PMSConfig *)

AXIS_RANGE_START == 19

AXIS_RANGE_END == 21

TARGET_LEVEL == 5

LEVEL_1_PATTERN == <<"A", "x">>

LEVEL_3_TEXT == <<"G", "F">>

LEVEL_4_TEXT == <<"B", "L">>

AxisRange == AXIS_RANGE_START..(AXIS_RANGE_END - 1)

get_search_path(n) ==
    << <<1, LEVEL_1_PATTERN \o <<" ">> \o Str(n)>>,
       <<3, LEVEL_3_TEXT>>,
       <<4, LEVEL_4_TEXT>> >>

\* f"محور {mohor_num}"
MohorName(n) == <<"M", " ">> \o Str(n)

-----------------------------------------------------------------------------
(* TextNormalizer *)

FARSI_YEH == "U+06CC"

KEHEH == "U+06A9"

\* str.replace for one character
Replace(s, old, new) == [i \in 1..Len(s) |-> IF s[i] = old THEN new ELSE s[i]]

\* re.sub(r'\s', '', text, count=1)
RemoveFirstSpace(s) ==
    IF \E i \in DOMAIN s : IsSpace(s[i])
    THEN LET i == CHOOSE i \in DOMAIN s :
                      IsSpace(s[i]) /\ \A j \in 1..(i - 1) : ~IsSpace(s[j])
         IN  SubSeq(s, 1, i - 1) \o SubSeq(s, i + 1, Len(s))
    ELSE s

\* normalize_standard removing the first whitespace character only
normalize_standard_first_space(text) ==
    IF text = None THEN <<>>
    ELSE Lower(RemoveFirstSpace(
             Replace(Replace(Strip(text), FARSI_YEH, FARSI_YEH), KEHEH, KEHEH)))

normalize_standard(text) ==
    IF text = None THEN <<>>
    ELSE Lower(SelectSeq(
             Replace(Replace(Strip(text), FARSI_YEH, FARSI_YEH), KEHEH, KEHEH),
             NotSpace))

-----------------------------------------------------------------------------
(* PMSHierarchySearcher *)

get_outline_level(r) == r.outlineLevel

max_row(sheet) == Len(sheet)

\* The row satisfies the path constraint: level equal, text contains
MatchesConstraint(sheet, row_idx, constraint) ==
    /\ sheet[row_idx].text # None
    /\ get_outline_level(sheet[row_idx]) = constraint[1]
    /\ Contains(constraint[2], Strip(sheet[row_idx].text))

\* FindParentScan as a last-match-wins scan: a later row matching the
\* constraint already matched overwrites its anchor
RECURSIVE FindParentScanLastMatch(_, _, _, _, _, _)
FindParentScanLastMatch(sheet, search_path, row_idx, current_idx, parent_row, matched) ==
    IF row_idx > max_row(sheet)
    THEN [early |-> FALSE, row_idx |-> row_idx, current_idx |-> current_idx,
          parent_row |-> parent_row, matched |-> matched]
    ELSE IF current_idx >= Len(search_path)
    THEN [early |-> TRUE, row_idx |-> row_idx, current_idx |-> current_idx,
          parent_row |-> parent_row, matched |-> matched]
    ELSE IF MatchesConstraint(sheet, row_idx, search_path[current_idx + 1])
    THEN FindParentScanLastMatch(sheet, search_path, row_idx + 1,
                                 current_idx + 1, row_idx,
                                 Append(matched, row_idx))
    ELSE IF current_idx >= 1
            /\ MatchesConstraint(sheet, row_idx, search_path[current_idx])
    THEN FindParentScanLastMatch(sheet, search_path, row_idx + 1, current_idx,
                                 row_idx,
                                 [matched EXCEPT ![current_idx] = row_idx])
    ELSE FindParentScanLastMatch(sheet, search_path, row_idx + 1, current_idx,
                                 parent_row, matched)

\* The for loop of _find_parent_section from row_idx on.  matched is the
\* sequence of values assigned to parent_row, one per matched constraint.
RECURSIVE FindParentScan(_, _, _, _, _, _)
FindParentScan(sheet, search_path, row_idx, current_idx, parent_row, matched) ==
    IF row_idx > max_row(sheet)
    THEN [early |-> FALSE, row_idx |-> row_idx, current_idx |-> current_idx,
          parent_row |-> parent_row, matched |-> matched]
    ELSE IF current_idx >= Len(search_path)
    THEN [early |-> TRUE, row_idx |-> row_idx, current_idx |-> current_idx,
          parent_row |-> parent_row, matched |-> matched]
    ELSE LET level == get_outline_level(sheet[row_idx])
             cell_value == sheet[row_idx].text
         IN  IF cell_value = None
             THEN FindParentScan(sheet, search_path, row_idx + 1, current_idx,
                                 parent_row, matched)
             ELSE LET cell_text == Strip(cell_value)
                      target_level == search_path[current_idx + 1][1]
                      target_text == search_path[current_idx + 1][2]
                  IN  IF level = target_level /\ Contains(target_text, cell_text)
                      THEN FindParentScan(sheet, search_path, row_idx + 1,
                                          current_idx + 1, row_idx,
                                          Append(matched, row_idx))
                      ELSE FindParentScan(sheet, search_path, row_idx + 1,
                                          current_idx, parent_row, matched)

\* _find_parent_section starting the sub-scan at the anchor itself when the
\* loop runs out of rows
find_parent_section_from_anchor(sheet, search_path) ==
    LET s == FindParentScan(sheet, search_path, 1, 0, NoRow, <<>>)
    IN  IF s.early
        THEN [parent_row |-> s.parent_row, search_start |-> s.row_idx,
              matched |-> s.matched]
        ELSE IF s.current_idx < Len(search_path)
        THEN [parent_row |-> NoRow, search_start |-> NoRow, matched |-> s.matched]
        ELSE [parent_row |-> s.parent_row, search_start |-> s.parent_row,
              matched |-> s.matched]

\* _find_parent_section: [parent_row, search_start, matched]; (None, None) is
\* (NoRow, NoRow)
find_parent_section(sheet, search_path) ==
    LET s == FindParentScan(sheet, search_path, 1, 0, NoRow, <<>>)
    IN  IF s.early
        THEN [parent_row |-> s.parent_row, search_start |-> s.row_idx,
              matched |-> s.matched]
        ELSE IF s.current_idx < Len(search_path)
        THEN [parent_row |-> NoRow, search_start |-> NoRow, matched |-> s.matched]
        ELSE [parent_row |-> s.parent_row, search_start |-> s.parent_row + 1,
              matched |-> s.matched]

\* ExtractScan with "continue" in place of "break" at the section boundary
RECURSIVE ExtractScanNoBreak(_, _, _, _, _)
ExtractScanNoBreak(sheet, parent_level, row_idx, target_level, found_items) ==
    IF row_idx > max_row(sheet) THEN found_items
    ELSE LET level == get_outline_level(sheet[row_idx])
             cell_value == sheet[row_idx].text
         IN  IF cell_value # None /\ level > parent_level /\ level = target_level
             THEN ExtractScanNoBreak(sheet, parent_level, row_idx + 1,
                                     target_level,
                                     Append(found_items,
                                            [row |-> row_idx, level |-> level,
                                             text |-> Strip(cell_value)]))
             ELSE ExtractScanNoBreak(sheet, parent_level, row_idx + 1,
                                     target_level, found_items)

\* ExtractScan testing the level of a row before its text: a blank row at
\* the parent's level or above ends the scan
RECURSIVE ExtractScanLevelFirst(_, _, _, _, _)
ExtractScanLevelFirst(sheet, parent_level, row_idx, target_level, found_items) ==
    IF row_idx > max_row(sheet) THEN found_items
    ELSE LET level == get_outline_level(sheet[row_idx])
             cell_value == sheet[row_idx].text
         IN  IF level <= parent_level THEN found_items
             ELSE IF cell_value = None
             THEN ExtractScanLevelFirst(sheet, parent_level, row_idx + 1,
                                        target_level, found_items)
             ELSE IF level = target_level
             THEN ExtractScanLevelFirst(sheet, parent_level, row_idx + 1,
                                        target_level,
                                        Append(found_items,
                                               [row |-> row_idx, level |-> level,
                                                text |-> Strip(cell_value)]))
             ELSE ExtractScanLevelFirst(sheet, parent_level, row_idx + 1,
                                        target_level, found_items)

\* ExtractScan ending at the first row that is not at the target level
RECURSIVE ExtractScanStopAtOtherLevel(_, _, _, _, _)
ExtractScanStopAtOtherLevel(sheet, parent_level, row_idx, target_level, found_items) ==
    IF row_idx > max_row(sheet) THEN found_items
    ELSE LET level == get_outline_level(sheet[row_idx])
             cell_value == sheet[row_idx].text
         IN  IF cell_value = None
             THEN ExtractScanStopAtOtherLevel(sheet, parent_level, row_idx + 1,
                                              target_level, found_items)
             ELSE IF level # target_level THEN found_items
             ELSE ExtractScanStopAtOtherLevel(sheet, parent_level, row_idx + 1,
                                              target_level,
                                              Append(found_items,
                                                     [row |-> row_idx,
                                                      level |-> level,
                                                      text |-> Strip(cell_value)]))

\* The for loop of _extract_target_items from row_idx on
RECURSIVE ExtractScan(_, _, _, _, _)
ExtractScan(sheet, parent_level, row_idx, target_level, found_items) ==
    IF row_idx > max_row(sheet) THEN found_items
    ELSE LET level == get_outline_level(sheet[row_idx])
             cell_value == sheet[row_idx].text
         IN  IF cell_value = None
             THEN ExtractScan(sheet, parent_level, row_idx + 1, target_level,
                              found_items)
             ELSE IF level <= parent_level THEN found_items
             ELSE IF level = target_level
             THEN ExtractScan(sheet, parent_level, row_idx + 1, target_level,
                              Append(found_items,
                                     [row |-> row_idx, level |-> level,
                                      text |-> Strip(cell_value)]))
             ELSE ExtractScan(sheet, parent_level, row_idx + 1, target_level,
                              found_items)

extract_target_items(sheet, parent_row, start_row, target_level) ==
    ExtractScan(sheet, get_outline_level(sheet[parent_row]), start_row,
                target_level, <<>>)

\* find_items, with the locals of the call
find_items(sheet, search_path, target_level) ==
    LET p == find_parent_section(sheet, search_path)
    IN  [parent_row |-> p.parent_row,
         search_start |-> p.search_start,
         matched |-> p.matched,
         items |-> IF p.parent_row = NoRow THEN <<>>
                   ELSE extract_target_items(sheet, p.parent_row,
                                             p.search_start, target_level)]

\* LastLevel5Scan keeping the first target-level row instead of the last
RECURSIVE LastLevel5ScanFirst(_, _, _, _)
LastLevel5ScanFirst(sheet, section_level, row_idx, last_level5) ==
    IF row_idx > max_row(sheet) THEN last_level5
    ELSE LET level == get_outline_level(sheet[row_idx])
         IN  IF level <= section_level THEN last_level5
             ELSE IF level = TARGET_LEVEL /\ last_level5 = NoRow
             THEN LastLevel5ScanFirst(sheet, section_level, row_idx + 1, row_idx)
             ELSE LastLevel5ScanFirst(sheet, section_level, row_idx + 1,
                                      last_level5)

\* The for loop of find_last_level5_in_section from row_idx on
RECURSIVE LastLevel5Scan(_, _, _, _)
LastLevel5Scan(sheet, section_level, row_idx, last_level5) ==
    IF row_idx > max_row(sheet) THEN last_level5
    ELSE LET level == get_outline_level(sheet[row_idx])
         IN  IF level <= section_level THEN last_level5
             ELSE IF level = TARGET_LEVEL
             THEN LastLevel5Scan(sheet, section_level, row_idx + 1, row_idx)
             ELSE LastLevel5Scan(sheet, section_level, row_idx + 1, last_level5)

find_last_level5_in_section(sheet, n) ==
    LET p == find_parent_section(sheet, get_search_path(n))
    IN  IF p.parent_row = NoRow THEN NoRow
        ELSE LastLevel5Scan(sheet, get_outline_level(sheet[p.parent_row]),
                            p.search_start, NoRow)

-----------------------------------------------------------------------------
(* PMSStructureReader *)

\* The find_items call _search_all_mohors makes for each axis
search_calls(sheet) ==
    [n \in AxisRange |-> find_items(sheet, get_search_path(n), TARGET_LEVEL)]

\* SearchScan recording an entry for every axis, found or not
RECURSIVE SearchScanEveryAxis(_, _, _)
SearchScanEveryAxis(found, n, acc) ==
    IF n >= AXIS_RANGE_END THEN acc
    ELSE SearchScanEveryAxis(found, n + 1,
             Append(acc, [mohor |-> MohorName(n), items |-> found[n].items]))

\* The for loop of _search_all_mohors from axis n on
RECURSIVE SearchScan(_, _, _)
SearchScan(found, n, acc) ==
    IF n >= AXIS_RANGE_END THEN acc
    ELSE IF found[n].items # <<>>
    THEN SearchScan(found, n + 1,
                    Append(acc, [mohor |-> MohorName(n), items |-> found[n].items]))
    ELSE SearchScan(found, n + 1, acc)

\* _search_all_mohors: the dict {mohor_name: items} in insertion order
search_all_mohors(found) == SearchScan(found, AXIS_RANGE_START, <<>>)

RECURSIVE FlattenResults(_)
FlattenResults(mohor_results) ==
    IF mohor_results = <<>> THEN <<>>
    ELSE LET head == Head(mohor_results)
         IN  [i \in 1..Len(head.items) |->
                [mohor |-> head.mohor, row |-> head.items[i].row,
                 level |-> head.items[i].level,
                 original_text |-> head.items[i].text]]
             \o FlattenResults(Tail(mohor_results))

\* PMSStructureReader.extract_all_items: normalized text -> list of locations
PMS_extract_all_items(mohor_results) ==
    LET flat == FlattenResults(mohor_results)
        keys == {normalize_standard(flat[i].original_text) : i \in 1..Len(flat)}
    IN  [k \in keys |->
           SelectSeq(flat, LAMBDA e : normalize_standard(e.original_text) = k)]

-----------------------------------------------------------------------------
(* AxisExtractor *)

NoAxis == -1

AXIS_SEARCH_COLS == <<3, 4, 5>>

ITEM_COL == 3

ROW_START == 7

ROW_END == 31

ReplaceNewlines(s) ==
    [i \in 1..Len(s) |-> IF s[i] \in {"\n", "\r"} THEN " " ELSE s[i]]

NotSpaceOrHyphen(c) == c \notin {" ", "-"}

normalize_pnt_axis(text) ==
    IF text = None THEN <<>>
    ELSE SelectSeq(Upper(ReplaceNewlines(text)), NotSpaceOrHyphen)

\* ws.cell(row_idx, col).value of the PNT-G sheet; rows below the data are blank
PntCell(sheet, row_idx, col) ==
    IF row_idx - ROW_START + 1 \in DOMAIN sheet
    THEN sheet[row_idx - ROW_START + 1].cells[col]
    ELSE None

\* RangeScan over a range that includes AXIS_RANGE_END
RECURSIVE RangeScanInclusive(_, _, _)
RangeScanInclusive(normalized, pattern_prefix, n) ==
    IF n > AXIS_RANGE_END THEN NoAxis
    ELSE IF Contains(pattern_prefix \o Str(n), normalized) THEN n
    ELSE RangeScanInclusive(normalized, pattern_prefix, n + 1)

\* The inner for loop of _search_pattern from mohor n on
RECURSIVE RangeScan(_, _, _)
RangeScan(normalized, pattern_prefix, n) ==
    IF n >= AXIS_RANGE_END THEN NoAxis
    ELSE IF Contains(pattern_prefix \o Str(n), normalized) THEN n
    ELSE RangeScan(normalized, pattern_prefix, n + 1)

\* The outer for loop of _search_pattern from the c-th search column on
RECURSIVE ColScan(_, _, _, _)
ColScan(sheet, row_idx, pattern_prefix, c) ==
    IF c > Len(AXIS_SEARCH_COLS) THEN NoAxis
    ELSE LET cell_value == PntCell(sheet, row_idx, AXIS_SEARCH_COLS[c])
         IN  IF cell_value = None \/ cell_value = <<>>
             THEN ColScan(sheet, row_idx, pattern_prefix, c + 1)
             ELSE LET m == RangeScan(normalize_pnt_axis(cell_value),
                                     pattern_prefix, AXIS_RANGE_START)
                  IN  IF m # NoAxis THEN m
                      ELSE ColScan(sheet, row_idx, pattern_prefix, c + 1)

search_pattern(sheet, row_idx, pattern_prefix) ==
    ColScan(sheet, row_idx, pattern_prefix, 1)

\* One pass over the columns trying AXIS and then S in each column
RECURSIVE ColScanBothPrefixes(_, _, _)
ColScanBothPrefixes(sheet, row_idx, c) ==
    IF c > Len(AXIS_SEARCH_COLS) THEN NoAxis
    ELSE LET cell_value == PntCell(sheet, row_idx, AXIS_SEARCH_COLS[c])
         IN  IF cell_value = None \/ cell_value = <<>>
             THEN ColScanBothPrefixes(sheet, row_idx, c + 1)
             ELSE LET normalized == normalize_pnt_axis(cell_value)
                      a == RangeScan(normalized, <<"A", "X", "I", "S">>,
                                     AXIS_RANGE_START)
                      b == RangeScan(normalized, <<"S">>, AXIS_RANGE_START)
                  IN  IF a # NoAxis THEN a
                      ELSE IF b # NoAxis THEN b
                      ELSE ColScanBothPrefixes(sheet, row_idx, c + 1)

\* extract_from_row returning the first match of either prefix, column by column
extract_from_row_by_column(sheet, row_idx) ==
    ColScanBothPrefixes(sheet, row_idx, 1)

\* "if mohor:" is false for None and for 0
extract_from_row(sheet, row_idx) ==
    LET mohor == search_pattern(sheet, row_idx, <<"A", "X", "I", "S">>)
    IN  IF mohor # NoAxis /\ mohor # 0 THEN mohor
        ELSE search_pattern(sheet, row_idx, <<"S">>)

-----------------------------------------------------------------------------
(* PNTItemExtractor *)

\* ' '.join(text.split()) from the i-th character on
RECURSIVE JoinSplit(_, _, _, _)
JoinSplit(s, i, out, inword) ==
    IF i > Len(s) THEN out
    ELSE IF s[i] \in Whitespace THEN JoinSplit(s, i + 1, out, FALSE)
    ELSE JoinSplit(s, i + 1,
                   (IF out # <<>> /\ ~inword THEN out \o <<" ">> ELSE out)
                       \o <<s[i]>>,
                   TRUE)

multiline_to_single(text) ==
    IF text = None THEN <<>>
    ELSE Strip(JoinSplit(ReplaceNewlines(text), 1, <<>>, FALSE))

\* the cleaned value of the G2 cell, one per run
G2_VALUE == <<"g", "2">>

\* "int(quantity) if quantity else 0": [raise, value]
QuantityOf(cell) ==
    IF cell.kind = "none" THEN [raise |-> FALSE, value |-> 0]
    ELSE IF cell.kind = "int" THEN [raise |-> FALSE, value |-> cell.num]
    ELSE [raise |-> TRUE, value |-> 0]

PntQuantity(sheet, row_idx) ==
    IF row_idx - ROW_START + 1 \in DOMAIN sheet
    THEN sheet[row_idx - ROW_START + 1].quantity
    ELSE [kind |-> "none", num |-> 0]

PntMValue(sheet, row_idx) ==
    IF row_idx - ROW_START + 1 \in DOMAIN sheet
    THEN sheet[row_idx - ROW_START + 1].m_value
    ELSE None

\* _extract_row_data: tag "none" is the return value None, tag "raise" the
\* exception of int(); called says whether extract_from_row was called
extract_row_data(sheet, row_idx) ==
    LET item_value == PntCell(sheet, row_idx, ITEM_COL)
    IN  IF item_value = None \/ item_value = <<>>
        THEN [tag |-> "none", called |-> FALSE, axis |-> NoAxis]
        ELSE LET axis_num == extract_from_row(sheet, row_idx)
                 original_text == Strip(item_value)
                 single_line == multiline_to_single(original_text)
                 normalized == normalize_standard(single_line)
                 quantity == QuantityOf(PntQuantity(sheet, row_idx))
             IN  IF normalized = <<>>
                 THEN [tag |-> "none", called |-> TRUE, axis |-> axis_num]
                 ELSE IF quantity.raise
                 THEN [tag |-> "raise", called |-> TRUE, axis |-> axis_num]
                 ELSE [tag |-> "item", called |-> TRUE, axis |-> axis_num,
                       pnt_row |-> row_idx,
                       quantity |-> quantity.value,
                       m_value |-> PntMValue(sheet, row_idx),
                       original |-> original_text,
                       single_line |-> single_line,
                       normalized |-> normalized]

ItemOf(d) ==
    [pnt_row |-> d.pnt_row, quantity |-> d.quantity, m_value |-> d.m_value,
     original |-> d.original, single_line |-> d.single_line,
     normalized |-> d.normalized, axis |-> d.axis]

\* items_by_axis[axis_num].append(item_data), creating the list when absent
AddToAxis(groups, item) ==
    IF \E i \in 1..Len(groups) : groups[i].axis = item.axis
    THEN [i \in 1..Len(groups) |->
            IF groups[i].axis = item.axis
            THEN [groups[i] EXCEPT !.items = Append(@, item)]
            ELSE groups[i]]
    ELSE Append(groups, [axis |-> item.axis, items |-> <<item>>])

\* PntScan that skips a row without axis instead of recording it
RECURSIVE PntScanDropUnidentified(_, _, _, _, _)
PntScanDropUnidentified(sheet, row_idx, groups, unid, log) ==
    IF row_idx >= ROW_END
    THEN [raised |-> FALSE, items_by_axis |-> groups, unidentified |-> unid,
          axis_log |-> log]
    ELSE LET item_data == extract_row_data(sheet, row_idx)
             log2 == IF item_data.called
                     THEN Append(log, [row |-> row_idx, axis |-> item_data.axis])
                     ELSE log
         IN  IF item_data.tag = "raise"
             THEN [raised |-> TRUE, items_by_axis |-> groups,
                   unidentified |-> unid, axis_log |-> log2]
             ELSE IF item_data.tag = "none" \/ item_data.axis = NoAxis
             THEN PntScanDropUnidentified(sheet, row_idx + 1, groups, unid, log2)
             ELSE PntScanDropUnidentified(sheet, row_idx + 1,
                                          AddToAxis(groups, ItemOf(item_data)),
                                          unid, log2)

\* The for loop of PNTItemExtractor.extract_all_items from row_idx on
RECURSIVE PntScan(_, _, _, _, _)
PntScan(sheet, row_idx, groups, unid, log) ==
    IF row_idx >= ROW_END
    THEN [raised |-> FALSE, items_by_axis |-> groups, unidentified |-> unid,
          axis_log |-> log]
    ELSE LET item_data == extract_row_data(sheet, row_idx)
             log2 == IF item_data.called
                     THEN Append(log, [row |-> row_idx, axis |-> item_data.axis])
                     ELSE log
         IN  IF item_data.tag = "raise"
             THEN [raised |-> TRUE, items_by_axis |-> groups,
                   unidentified |-> unid, axis_log |-> log2]
             ELSE IF item_data.tag = "none"
             THEN PntScan(sheet, row_idx + 1, groups, unid, log2)
             ELSE IF item_data.axis = NoAxis
             THEN PntScan(sheet, row_idx + 1, groups,
                          Append(unid, [row |-> row_idx,
                                        item |-> item_data.single_line]),
                          log2)
             ELSE PntScan(sheet, row_idx + 1,
                          AddToAxis(groups, ItemOf(item_data)), unid, log2)

PNT_extract_all_items(sheet) == PntScan(sheet, ROW_START, <<>>, <<>>, <<>>)

-----------------------------------------------------------------------------
(* UpdatePlanner *)

\* _create_existing_update warning also when the rows just suffice (<= for <)
create_existing_update_le(mohor_name, pnt_data, locations, g2_value) ==
    LET needed_quantity == pnt_data.quantity
        current_quantity == Len(locations)
    IN  [status |-> "existing",
         update |-> [mohor |-> mohor_name,
                     item_text |-> pnt_data.single_line,
                     existing_rows |->
                         [i \in 1..Len(locations) |-> locations[i].row],
                     needed_quantity |-> needed_quantity,
                     a_value |-> pnt_data.single_line,
                     e_value |-> g2_value,
                     n_value |-> pnt_data.m_value,
                     is_new_item |-> FALSE],
         warning |-> IF current_quantity <= needed_quantity
                     THEN << [item |-> pnt_data.single_line,
                              mohor |-> mohor_name,
                              needed |-> needed_quantity,
                              available |-> current_quantity,
                              deficit |-> needed_quantity - current_quantity] >>
                     ELSE <<>>]

\* _create_existing_update; warning is <<>> when the key is absent, else <<w>>
create_existing_update(mohor_name, pnt_data, locations, g2_value) ==
    LET needed_quantity == pnt_data.quantity
        current_quantity == Len(locations)
    IN  [status |-> "existing",
         update |-> [mohor |-> mohor_name,
                     item_text |-> pnt_data.single_line,
                     existing_rows |->
                         [i \in 1..Len(locations) |-> locations[i].row],
                     needed_quantity |-> needed_quantity,
                     a_value |-> pnt_data.single_line,
                     e_value |-> g2_value,
                     n_value |-> pnt_data.m_value,
                     is_new_item |-> FALSE],
         warning |-> IF current_quantity < needed_quantity
                     THEN << [item |-> pnt_data.single_line,
                              mohor |-> mohor_name,
                              needed |-> needed_quantity,
                              available |-> current_quantity,
                              deficit |-> needed_quantity - current_quantity] >>
                     ELSE <<>>]

\* _create_new_update; "if last_level5:" is false for None and for 0
create_new_update(sheet, mohor_name, mohor_num, pnt_data, g2_value) ==
    LET last_level5 == find_last_level5_in_section(sheet, mohor_num)
    IN  IF last_level5 # NoRow
        THEN [status |-> "new",
              update |-> [mohor |-> mohor_name,
                          item_text |-> <<"*", " ">> \o pnt_data.single_line,
                          existing_rows |-> <<last_level5>>,
                          needed_quantity |-> pnt_data.quantity,
                          a_value |-> pnt_data.single_line,
                          e_value |-> g2_value,
                          n_value |-> pnt_data.m_value,
                          g_value |-> pnt_data.m_value,
                          is_new_item |-> TRUE]]
        ELSE [status |-> "not_found",
              error |-> [item |-> pnt_data.single_line,
                         mohor |-> mohor_name,
                         reason |-> "axis or Level 5 not found in PMS"]]

\* SameMohor without the axis filter
SameMohorAnyAxis(locs, mohor_name) == locs

\* SameMohor keeping only the first location of the axis
SameMohorFirst(locs, mohor_name) ==
    LET same == SelectSeq(locs, LAMBDA loc : loc.mohor = mohor_name)
    IN  IF same = <<>> THEN <<>> ELSE <<Head(same)>>

SameMohor(locs, mohor_name) ==
    SelectSeq(locs, LAMBDA loc : loc.mohor = mohor_name)

\* _match_item
match_item(sheet, mohor_name, mohor_num, pnt_data, locs, g2_value) ==
    LET normalized_item == pnt_data.normalized
        mohor_locations ==
            IF normalized_item \in DOMAIN locs
            THEN SameMohor(locs[normalized_item], mohor_name)
            ELSE <<>>
    IN  IF mohor_locations # <<>>
        THEN create_existing_update(mohor_name, pnt_data, mohor_locations,
                                    g2_value)
        ELSE create_new_update(sheet, mohor_name, mohor_num, pnt_data, g2_value)

\* The source items in the order plan_updates visits them
RECURSIVE PlanOrder(_)
PlanOrder(groups) ==
    IF groups = <<>> THEN <<>>
    ELSE Head(groups).items \o PlanOrder(Tail(groups))

\* The results of the _match_item calls of plan_updates, in call order
match_results(sheet, locs, groups, g2_value) ==
    LET order == PlanOrder(groups)
    IN  [i \in 1..Len(order) |->
           match_item(sheet, MohorName(order[i].axis), order[i].axis, order[i],
                      locs, g2_value)]

IsUpdate(r) == r.status \in {"existing", "new"}

HasWarning(r) == r.status = "existing" /\ r.warning # <<>>

IsNotFound(r) == r.status = "not_found"

\* plan_updates without the branch that files a new item under updates
plan_updates_existing_only(rs) ==
    LET u == SelectSeq(rs, LAMBDA r : r.status = "existing")
        w == SelectSeq(rs, LAMBDA r : r.status = "existing" /\ r.warning # <<>>)
        n == SelectSeq(rs, LAMBDA r : r.status = "not_found")
    IN  [updates |-> [i \in 1..Len(u) |-> u[i].update],
         warnings |-> [i \in 1..Len(w) |-> w[i].warning[1]],
         not_found |-> [i \in 1..Len(n) |-> n[i].error]]

\* plan_updates: (updates, not_found, warnings)
plan_updates(rs) ==
    LET u == SelectSeq(rs, IsUpdate)
        w == SelectSeq(rs, HasWarning)
        n == SelectSeq(rs, IsNotFound)
    IN  [updates |-> [i \in 1..Len(u) |-> u[i].update],
         warnings |-> [i \in 1..Len(w) |-> w[i].warning[1]],
         not_found |-> [i \in 1..Len(n) |-> n[i].error]]

-----------------------------------------------------------------------------
(* COMUpdater *)

\* A row of the PMS sheet: outline level, text column, date column, G and N
PmsRow(level, text) ==
    [outlineLevel |-> level, text |-> text, date |-> None, g |-> None,
     n |-> None]

\* A row of the sheet that holds nothing
BlankRow == PmsRow(0, None)

\* "e_cell_value is None or str(e_cell_value).strip() == ''"
DateEmpty(cell) == cell = None \/ Strip(cell) = <<>>

\* The sheet seen as far as row r: rows below the used range are blank
Padded(sheet, r) ==
    IF r <= Len(sheet) THEN sheet
    ELSE sheet \o [i \in 1..(r - Len(sheet)) |-> BlankRow]

\* ws.Rows(new_row).Insert(): the rows from new_row on move down by one
InsertRow(sheet, new_row) ==
    IF new_row > Len(sheet) THEN sheet
    ELSE SubSeq(sheet, 1, new_row - 1) \o <<BlankRow>>
             \o SubSeq(sheet, new_row, Len(sheet))

\* _copy_row_with_values: content, format and outline level of the source row
copy_row_with_values(sheet, source_row, target_row) ==
    LET p == Padded(sheet, IF source_row > target_row THEN source_row
                           ELSE target_row)
    IN  [p EXCEPT ![target_row] = p[source_row]]

\* The writes of the text, date, G and N columns of a new item's row
WriteNewCells(sheet, row, update) ==
    LET p == Padded(sheet, row)
    IN  [p EXCEPT ![row] = [@ EXCEPT !.text = update.a_value,
                                     !.date = update.e_value,
                                     !.g = update.g_value,
                                     !.n = update.n_value]]

\* The writes of the text, date and N columns of an existing item's row
WriteExistingCells(sheet, row, update) ==
    LET p == Padded(sheet, row)
    IN  [p EXCEPT ![row] = [@ EXCEPT !.text = update.a_value,
                                     !.date = update.e_value,
                                     !.n = update.n_value]]

\* The slice s[:n] of Python
Take(s, n) ==
    IF n >= 0 THEN SubSeq(s, 1, IF n < Len(s) THEN n ELSE Len(s))
    ELSE SubSeq(s, 1, IF Len(s) + n > 0 THEN Len(s) + n ELSE 0)

\* The insertion loop of _process_new_item from iteration i on.  copies counts
\* the _copy_row_with_values calls made so far in update_file; the call
\* numbered fail raises (0: none does).
RECURSIVE NewItemLoop(_, _, _, _, _, _, _, _)
NewItemLoop(sheet, update, template_row, i, existing_rows, inserted, copies, fail) ==
    IF i >= update.needed_quantity
    THEN [raised |-> FALSE, sheet |-> sheet, existing_rows |-> existing_rows,
          inserted |-> inserted, updated |-> 0, skipped |-> 0,
          copies |-> copies, written |-> <<>>]
    ELSE LET new_row == template_row + i + 1
             inserted_sheet == InsertRow(sheet, new_row)
         IN  IF copies + 1 = fail
             THEN [raised |-> TRUE, sheet |-> inserted_sheet,
                   existing_rows |-> existing_rows, inserted |-> inserted,
                   updated |-> 0, skipped |-> 0, copies |-> copies + 1,
                   written |-> <<>>]
             ELSE NewItemLoop(
                      WriteNewCells(
                          copy_row_with_values(inserted_sheet, template_row,
                                               new_row),
                          new_row, update),
                      update, template_row, i + 1,
                      Append(existing_rows, new_row), inserted + 1,
                      copies + 1, fail)

\* _process_new_item
process_new_item(sheet, update, copies, fail) ==
    NewItemLoop(sheet, update,
                update.existing_rows[Len(update.existing_rows)], 0,
                update.existing_rows, 0, copies, fail)

\* The deficit loop of _process_existing_item from iteration i on
RECURSIVE DeficitLoop(_, _, _, _, _, _, _, _, _, _)
DeficitLoop(sheet, update, last_row, deficit, i, empty_rows, existing_rows, inserted, copies, fail) ==
    IF i >= deficit
    THEN [raised |-> FALSE, sheet |-> sheet, empty_rows |-> empty_rows,
          existing_rows |-> existing_rows, inserted |-> inserted,
          copies |-> copies]
    ELSE LET new_row == last_row + i + 1
             inserted_sheet == InsertRow(sheet, new_row)
         IN  IF copies + 1 = fail
             THEN [raised |-> TRUE, sheet |-> inserted_sheet,
                   empty_rows |-> empty_rows, existing_rows |-> existing_rows,
                   inserted |-> inserted, copies |-> copies + 1]
             ELSE DeficitLoop(
                      WriteExistingCells(
                          copy_row_with_values(inserted_sheet, last_row, new_row),
                          new_row, update),
                      update, last_row, deficit, i + 1,
                      Append(empty_rows, new_row),
                      Append(existing_rows, new_row), inserted + 1,
                      copies + 1, fail)

\* The loop of _process_existing_item over rows_to_update from the k-th on
RECURSIVE UpdateRowsLoop(_, _, _, _)
UpdateRowsLoop(sheet, update, rows_to_update, k) ==
    IF k > Len(rows_to_update) THEN sheet
    ELSE UpdateRowsLoop(WriteExistingCells(sheet, rows_to_update[k], update),
                        update, rows_to_update, k + 1)

\* _process_existing_item; ws_check is the sheet as loaded from the file
process_existing_item(ws_com, ws_check, update, copies, fail) ==
    LET existing_rows == update.existing_rows
        needed_quantity == update.needed_quantity
        IsEmpty(row) == DateEmpty(Padded(ws_check, row)[row].date)
        empty_rows == SelectSeq(existing_rows, IsEmpty)
        filled_rows == SelectSeq(existing_rows, LAMBDA row : ~IsEmpty(row))
        deficit == IF needed_quantity - Len(empty_rows) > 0
                   THEN needed_quantity - Len(empty_rows) ELSE 0
        d == DeficitLoop(ws_com, update, existing_rows[Len(existing_rows)],
                         deficit, 0, empty_rows, existing_rows, 0, copies, fail)
        rows_to_update == Take(d.empty_rows, needed_quantity)
    IN  IF d.raised
        THEN [raised |-> TRUE, sheet |-> d.sheet,
              existing_rows |-> d.existing_rows, inserted |-> d.inserted,
              updated |-> 0, skipped |-> Len(filled_rows),
              copies |-> d.copies, written |-> <<>>]
        ELSE [raised |-> FALSE,
              sheet |-> UpdateRowsLoop(d.sheet, update, rows_to_update, 1),
              existing_rows |-> d.existing_rows, inserted |-> d.inserted,
              updated |-> Len(rows_to_update), skipped |-> Len(filled_rows),
              copies |-> d.copies, written |-> rows_to_update]

\* ProcessLoop going on to the next plan entry after an entry has raised
RECURSIVE ProcessLoopContinue(_, _, _, _, _, _, _, _)
ProcessLoopContinue(ws_com, ws_check, plan, k, counts, copies, fail, log) ==
    IF k > Len(plan)
    THEN [raised |-> FALSE, sheet |-> ws_com, stats |-> counts, updates |-> plan,
          log |-> log]
    ELSE LET update == plan[k]
             r == IF update.is_new_item
                  THEN process_new_item(ws_com, update, copies, fail)
                  ELSE process_existing_item(ws_com, ws_check, update, copies,
                                             fail)
         IN  ProcessLoopContinue(
                 r.sheet, ws_check,
                 [plan EXCEPT ![k].existing_rows = r.existing_rows], k + 1,
                 [inserted |-> counts.inserted + r.inserted,
                  updated |-> counts.updated + r.updated,
                  skipped |-> counts.skipped + r.skipped],
                 r.copies, fail,
                 Append(log, [entry |-> k, update |-> update,
                              before |-> ws_com, after |-> r.sheet,
                              raised |-> r.raised, inserted |-> r.inserted,
                              updated |-> r.updated, skipped |-> r.skipped,
                              written |-> r.written]))

\* The loop of _process_updates from the k-th plan entry on.  log holds, for
\* each entry processed, the sheet before and after it and what it returned.
RECURSIVE ProcessLoop(_, _, _, _, _, _, _, _)
ProcessLoop(ws_com, ws_check, plan, k, counts, copies, fail, log) ==
    IF k > Len(plan)
    THEN [raised |-> FALSE, sheet |-> ws_com, stats |-> counts, updates |-> plan,
          log |-> log]
    ELSE LET update == plan[k]
             r == IF update.is_new_item
                  THEN process_new_item(ws_com, update, copies, fail)
                  ELSE process_existing_item(ws_com, ws_check, update, copies,
                                             fail)
             plan2 == [plan EXCEPT ![k].existing_rows = r.existing_rows]
             log2 == Append(log, [entry |-> k, update |-> update,
                                  before |-> ws_com, after |-> r.sheet,
                                  raised |-> r.raised, inserted |-> r.inserted,
                                  updated |-> r.updated, skipped |-> r.skipped,
                                  written |-> r.written])
         IN  IF r.raised
             THEN [raised |-> TRUE, sheet |-> r.sheet, stats |-> counts,
                   updates |-> plan2, log |-> log2]
             ELSE ProcessLoop(r.sheet, ws_check, plan2, k + 1,
                              [inserted |-> counts.inserted + r.inserted,
                               updated |-> counts.updated + r.updated,
                               skipped |-> counts.skipped + r.skipped],
                              r.copies, fail, log2)

\* _process_updates
process_updates(ws_com, ws_check, plan, fail) ==
    ProcessLoop(ws_com, ws_check, plan, 1,
                [inserted |-> 0, updated |-> 0, skipped |-> 0], 0, fail, <<>>)

\* update_file saving the workbook also when an exception is raised
update_file_saving_on_failure(file_sheet, plan, fail) ==
    LET r == process_updates(file_sheet, file_sheet, plan, fail)
    IN  [raised |-> r.raised, file |-> r.sheet, sheet |-> r.sheet,
         stats |-> r.stats, updates |-> r.updates, log |-> r.log]

\* update_file: the file is loaded for the date check and opened in Excel,
\* the plan is processed and the workbook saved; on an exception the
\* workbook is closed without saving and the exception raised again.
\* file is the sheet in the file after the call.
update_file(file_sheet, plan, fail) ==
    LET r == process_updates(file_sheet, file_sheet, plan, fail)
    IN  [raised |-> r.raised,
         file |-> IF r.raised THEN file_sheet ELSE r.sheet,
         sheet |-> r.sheet, stats |-> r.stats, updates |-> r.updates,
         log |-> r.log]

-----------------------------------------------------------------------------
(* PMSCacheManager *)

PMS_SHEET == "1404.01.22"

\* A fingerprint that is the same for every state of the file
get_file_hash_unchanging(time, sheet) == <<0, 0>>

\* get_file_hash: modification time and size of the file
get_file_hash(time, sheet) == <<time, Len(sheet)>>

\* load_cache: <<>> is None.  The index holds string keys and, per entry,
\* strings and integers, which json.dump and json.load give back unchanged.
load_cache(stored, time, sheet, sheet_name) ==
    IF stored = <<>> THEN <<>>
    ELSE IF /\ stored[1].file_hash = get_file_hash(time, sheet)
            /\ stored[1].sheet_name = sheet_name
         THEN <<stored[1].item_locations>>
         ELSE <<>>

\* save_cache
save_cache(time, sheet, sheet_name, locations) ==
    <<[file_hash |-> get_file_hash(time, sheet), sheet_name |-> sheet_name,
       item_locations |-> locations]>>

\* "if cached_data:" of _load_pms_structure: None and the empty dict are false
CachedDataTruthy(loaded) == loaded # <<>> /\ loaded[1] # <<>>

\* _load_pms_structure
load_pms_structure(sheet, time, stored, use) ==
    LET loaded == IF use THEN load_cache(stored, time, sheet, PMS_SHEET)
                  ELSE <<>>
        found == search_calls(sheet)
        mohor_results == search_all_mohors(found)
        locations == PMS_extract_all_items(mohor_results)
    IN  IF use /\ CachedDataTruthy(loaded)
        THEN [cached_data |-> loaded, indexer_ran |-> FALSE, calls |-> <<>>,
              all_results |-> <<>>, item_locations |-> loaded[1],
              cache |-> stored]
        ELSE [cached_data |-> loaded, indexer_ran |-> TRUE, calls |-> found,
              all_results |-> mohor_results, item_locations |-> locations,
              cache |-> IF use
                        THEN save_cache(time, sheet, PMS_SHEET, locations)
                        ELSE stored]

-----------------------------------------------------------------------------
(* PMSUpdateOrchestrator.run *)

MaxCopyFail == 2

NoStats == [inserted |-> 0, updated |-> 0, skipped |-> 0]

\* Step 4 taken whenever the plan is not empty, in a dry run too
runs_update_file_when_dry(dry, plan) == plan # <<>>

\* "if updates:" of run, reached only when ProcessWorker.run is not dry
runs_update_file(dry, plan) == ~dry /\ plan # <<>>

\* The dict returned by run, and by _dry_run_analysis in a dry run
final_results(plan, missing, warned, no_axis, dry) ==
    [processed |-> Len(plan), not_found |-> Len(missing),
     warnings |-> Len(warned), unidentified_axis |-> Len(no_axis),
     dry_run |-> dry]

\* step 1: _load_pms_structure
LoadPmsStructure ==
    /\ pc = "start"
    /\ \E r \in {load_pms_structure(ws, mtime, cache, use_cache)} :
           /\ cached_data' = r.cached_data
           /\ indexer_ran' = r.indexer_ran
           /\ calls' = r.calls
           /\ all_results' = r.all_results
           /\ item_locations' = r.item_locations
           /\ cache' = r.cache
    /\ pc' = "indexed"
    /\ UNCHANGED <<ws, pnt, axis_log, items_by_axis, unidentified, updates,
                   not_found, warnings, results, use_cache, dry_run, mtime,
                   sync_log, stats, summary, second_run, first_doc, text_in,
                   norm_results>>

\* step 2: extract_all_items of the PNT extractor; an exception ends the run
ExtractPnt ==
    /\ pc = "indexed"
    /\ \E r \in {PNT_extract_all_items(pnt)} :
           /\ axis_log' = r.axis_log
           /\ IF r.raised
              THEN /\ pc' = "error"
                   /\ UNCHANGED <<items_by_axis, unidentified>>
              ELSE /\ pc' = "extracted"
                   /\ items_by_axis' = r.items_by_axis
                   /\ unidentified' = r.unidentified
    /\ UNCHANGED <<ws, pnt, all_results, calls, item_locations, updates,
                   not_found, warnings, results, use_cache, dry_run, cache,
                   mtime, cached_data, indexer_ran, sync_log, stats, summary,
                   second_run, first_doc, text_in,
                   norm_results>>

\* step 3: plan_updates
PlanUpdates ==
    /\ pc = "extracted"
    /\ \E rs \in {match_results(ws, item_locations, items_by_axis, G2_VALUE)} :
         \E plan \in {plan_updates(rs)} :
           /\ results' = rs
           /\ updates' = plan.updates
           /\ not_found' = plan.not_found
           /\ warnings' = plan.warnings
    /\ pc' = "planned"
    /\ UNCHANGED <<ws, pnt, all_results, calls, item_locations, axis_log,
                   items_by_axis, unidentified, use_cache, dry_run, cache,
                   mtime, cached_data, indexer_ran, sync_log, stats, summary,
                   second_run, first_doc, text_in,
                   norm_results>>

\* step 4: update_file, when the plan is not empty and the run is not dry.
\* An exception of _copy_row_with_values leaves run through update_file.
UpdateFile ==
    /\ pc = "planned"
    /\ runs_update_file(dry_run, updates)
    /\ \E fail \in 0..MaxCopyFail :
         \E r \in {update_file(ws, updates, fail)} :
           /\ ws' = r.file
           /\ mtime' = IF r.raised THEN mtime ELSE mtime + 1
           /\ updates' = r.updates
           /\ sync_log' = r.log
           /\ stats' = r.stats
           /\ pc' = IF r.raised THEN "sync_failed" ELSE "updated"
    /\ UNCHANGED <<pnt, all_results, calls, item_locations, axis_log,
                   items_by_axis, unidentified, not_found, warnings, results,
                   use_cache, dry_run, cache, cached_data, indexer_ran,
                   summary, second_run, first_doc, text_in,
                   norm_results>>

\* _print_final_report and the returned results; in a dry run the results
\* of _dry_run_analysis
FinalReport ==
    /\ \/ pc = "updated"
       \/ pc = "planned" /\ ~runs_update_file(dry_run, updates)
    /\ summary' = <<final_results(updates, not_found, warnings, unidentified,
                                  dry_run)>>
    /\ pc' = "done"
    /\ UNCHANGED <<ws, pnt, all_results, calls, item_locations, axis_log,
                   items_by_axis, unidentified, updates, not_found, warnings,
                   results, use_cache, dry_run, cache, mtime, cached_data,
                   indexer_ran, sync_log, stats, second_run, first_doc, text_in,
                   norm_results>>

\* The tool is run once more on the same files
Rerun ==
    /\ pc = "done"
    /\ ~second_run
    /\ second_run' = TRUE
    /\ first_doc' = ws
    /\ pc' = "start"
    /\ all_results' = <<>>
    /\ calls' = <<>>
    /\ item_locations' = <<>>
    /\ axis_log' = <<>>
    /\ items_by_axis' = <<>>
    /\ unidentified' = <<>>
    /\ updates' = <<>>
    /\ not_found' = <<>>
    /\ warnings' = <<>>
    /\ results' = <<>>
    /\ cached_data' = <<>>
    /\ indexer_ran' = FALSE
    /\ sync_log' = <<>>
    /\ stats' = NoStats
    /\ summary' = <<>>
    /\ UNCHANGED <<ws, pnt, use_cache, dry_run, cache, mtime, text_in,
                   norm_results>>

\* The planning steps of a run
Next == LoadPmsStructure \/ ExtractPnt \/ PlanUpdates

\* The steps of whole runs
NextRun == Next \/ UpdateFile \/ FinalReport \/ Rerun

-----------------------------------------------------------------------------
(* Documents *)

AxisHeader(n) == PmsRow(1, LEVEL_1_PATTERN \o <<" ">> \o Str(n))

L3Row == PmsRow(3, LEVEL_3_TEXT)

L4Row == PmsRow(4, <<" ">> \o LEVEL_4_TEXT \o <<" ">>)

PrimerCoat == <<"P", "c">>

PrimerCoatSpaced == <<"P", " ", "C">>

TieCoat == <<"T", "c">>

Leaf(text) == PmsRow(TARGET_LEVEL, text)

PntRow(c3, c4, c5, q, m) ==
    [cells |-> (3 :> c3) @@ (4 :> c4) @@ (5 :> c5), quantity |-> q, m_value |-> m]

IntCell(n) == [kind |-> "int", num |-> n]

NoneCell == [kind |-> "none", num |-> 0]

TextCell == [kind |-> "text", num |-> 0]

StartState ==
    /\ pc = "start"
    /\ all_results = <<>>
    /\ calls = <<>>
    /\ item_locations = <<>>
    /\ axis_log = <<>>
    /\ items_by_axis = <<>>
    /\ unidentified = <<>>
    /\ updates = <<>>
    /\ not_found = <<>>
    /\ warnings = <<>>
    /\ results = <<>>
    /\ cache = <<>>
    /\ mtime = 0
    /\ cached_data = <<>>
    /\ indexer_ran = FALSE
    /\ sync_log = <<>>
    /\ stats = NoStats
    /\ summary = <<>>
    /\ second_run = FALSE
    /\ first_doc = <<>>
    /\ text_in = None
    /\ norm_results = <<>>

-----------------------------------------------------------------------------
(* Locator runs: PMS sheets of every shape that open with the axis-19      *)
(* header or with a complete axis-19 path, and one fixed PNT-G sheet       *)

LocMaxTail == 4

LocRowKinds ==
    { AxisHeader(AXIS_RANGE_START), AxisHeader(AXIS_RANGE_START + 1),
      L3Row, L4Row, Leaf(PrimerCoat), Leaf(None), PmsRow(1, None),
      PmsRow(6, <<"x">>) }

LocPrefixes ==
    { <<AxisHeader(AXIS_RANGE_START)>>,
      <<AxisHeader(AXIS_RANGE_START), L3Row, L4Row>> }

LocDocs ==
    { p \o t : p \in LocPrefixes,
               t \in UNION { [1..n -> LocRowKinds] : n \in 0..LocMaxTail } }

MValue == <<"m">>

AXIS19 == <<"A", "X", "I", "S", "1", "9">>

AXIS20 == <<"A", "X", "I", "S", "2", "0">>

LocPnt ==
    << PntRow(PrimerCoat, AXIS19, None, IntCell(2), MValue),
       PntRow(TieCoat, <<"S", "2", "0">>, None, IntCell(1), MValue) >>

InitLocator ==
    /\ ws \in LocDocs
    /\ pnt = LocPnt
    /\ use_cache = FALSE
    /\ dry_run = FALSE
    /\ StartState

SpecLocator == InitLocator /\ [][Next]_vars

-----------------------------------------------------------------------------
(* Extractor runs: PNT-G sheets whose first ExtMaxRows rows hold every     *)
(* combination of item text, axis marker and quantity cell; one PMS sheet  *)

ExtMaxRows == 2

Section(n, leaves) ==
    <<AxisHeader(n), L3Row, L4Row>> \o [i \in 1..Len(leaves) |-> Leaf(leaves[i])]

ScenarioDoc ==
    Section(AXIS_RANGE_START, <<PrimerCoat, PrimerCoat>>)
        \o Section(AXIS_RANGE_START + 1, <<TieCoat>>)

ExtItemCells == { None, <<" ">>, PrimerCoat, <<"S", "2", "0", " ", "T">> }

ExtAxisCells ==
    { None,
      <<"a", "x", "i", "s", "-", "1", "9">>,
      <<"A", "X", "I", "S">> \o Str(AXIS_RANGE_END),
      <<"A", "X", "I", "S", "1", "9", "0">> }

ExtQuantityCells == { IntCell(1), TextCell }

ExtRows ==
    { PntRow(c3, c4, None, q, MValue) :
        c3 \in ExtItemCells, c4 \in ExtAxisCells, q \in ExtQuantityCells }

InitExtractor ==
    /\ ws = ScenarioDoc
    /\ pnt \in [1..ExtMaxRows -> ExtRows]
    /\ use_cache = FALSE
    /\ dry_run = FALSE
    /\ StartState

SpecExtractor == InitExtractor /\ [][Next]_vars

-----------------------------------------------------------------------------
(* Planner runs: a few PMS sheets with both axes, and PNT-G sheets whose   *)
(* first PlanMaxRows rows hold every item, axis and quantity               *)

PlanMaxRows == 2

MaxQuantity == 3

PlanDocs ==
    { ScenarioDoc,
      Section(AXIS_RANGE_START, <<PrimerCoat, TieCoat, PrimerCoatSpaced>>)
          \o Section(AXIS_RANGE_START + 1, <<>>),
      Section(AXIS_RANGE_START, <<TieCoat>>),
      Section(AXIS_RANGE_START, <<>>)
          \o Section(AXIS_RANGE_START + 1, <<PrimerCoat, PrimerCoat>>),
      Section(AXIS_RANGE_START + 1, <<PrimerCoat, None>>)
          \o <<PmsRow(1, None), Leaf(TieCoat)>> }

PlanRows ==
    { PntRow(c3, c4, None, IntCell(q), MValue) :
        c3 \in {PrimerCoat, TieCoat}, c4 \in {AXIS19, AXIS20},
        q \in 0..MaxQuantity }

Init ==
    /\ ws \in PlanDocs
    /\ pnt \in [1..PlanMaxRows -> PlanRows]
    /\ use_cache = FALSE
    /\ dry_run = FALSE
    /\ StartState

Spec == Init /\ [][Next]_vars

-----------------------------------------------------------------------------
(* Synchronizer runs: PMS sheets whose target rows are partly dated, PNT-G  *)
(* sheets of two items with every quantity, dry and real runs, with and     *)
(* without the cache, each followed by a second run on the same files       *)

DatedLeaf(text) == [Leaf(text) EXCEPT !.date = <<"d">>]

SyncDocs ==
    { <<AxisHeader(AXIS_RANGE_START), L3Row, L4Row, DatedLeaf(PrimerCoat),
        Leaf(PrimerCoat), AxisHeader(AXIS_RANGE_START + 1), L3Row, L4Row,
        DatedLeaf(PrimerCoat), Leaf(PrimerCoat), Leaf(TieCoat)>>,
      <<AxisHeader(AXIS_RANGE_START), L3Row, L4Row, Leaf(PrimerCoat),
        AxisHeader(AXIS_RANGE_START + 1), L3Row, L4Row, DatedLeaf(TieCoat)>>,
      <<AxisHeader(AXIS_RANGE_START), L3Row, L4Row, Leaf(TieCoat),
        DatedLeaf(TieCoat)>>,
      <<AxisHeader(AXIS_RANGE_START), L3Row, L4Row,
        AxisHeader(AXIS_RANGE_START + 1), L3Row, L4Row, Leaf(TieCoat)>>,
      <<AxisHeader(AXIS_RANGE_START), L3Row, L4Row>> }

SyncFirstRows ==
    { PntRow(PrimerCoat, AXIS19, None, IntCell(q), MValue) :
        q \in 0..MaxQuantity }

SyncSecondRows ==
    { PntRow(c3, c4, None, IntCell(q), MValue) :
        c3 \in {PrimerCoat, TieCoat}, c4 \in {AXIS19, AXIS20},
        q \in 0..MaxQuantity }

InitSync ==
    /\ ws \in SyncDocs
    /\ pnt \in { <<r1, r2>> : r1 \in SyncFirstRows, r2 \in SyncSecondRows }
    /\ use_cache \in BOOLEAN
    /\ dry_run \in BOOLEAN
    /\ StartState

SpecSync == InitSync /\ [][NextRun]_vars

-----------------------------------------------------------------------------
(* Normalizer runs: normalize_standard applied to every text of up to       *)
(* NormMaxLen characters, and then to its own result                        *)

NormMaxLen == 4

NormChars == {" ", "\t", "P", "c", FARSI_YEH}

NormTexts ==
    {None} \cup UNION { [1..n -> NormChars] : n \in 0..NormMaxLen }

\* normalize_standard applied to the text, then to what it returned
Normalize ==
    /\ pc = "text"
    /\ Len(norm_results) < 2
    /\ norm_results' =
           Append(norm_results,
                  normalize_standard(IF norm_results = <<>> THEN text_in
                                     ELSE norm_results[Len(norm_results)]))
    /\ UNCHANGED <<ws, pnt, pc, all_results, calls, item_locations, axis_log,
                   items_by_axis, unidentified, updates, not_found, warnings,
                   results, use_cache, dry_run, cache, mtime, cached_data,
                   indexer_ran, sync_log, stats, summary, second_run,
                   first_doc, text_in>>

InitNormalize ==
    /\ text_in \in NormTexts
    /\ norm_results = <<>>
    /\ pc = "text"
    /\ ws = <<>>
    /\ pnt = <<>>
    /\ all_results = <<>>
    /\ calls = <<>>
    /\ item_locations = <<>>
    /\ axis_log = <<>>
    /\ items_by_axis = <<>>
    /\ unidentified = <<>>
    /\ updates = <<>>
    /\ not_found = <<>>
    /\ warnings = <<>>
    /\ results = <<>>
    /\ use_cache = FALSE
    /\ dry_run = FALSE
    /\ cache = <<>>
    /\ mtime = 0
    /\ cached_data = <<>>
    /\ indexer_ran = FALSE
    /\ sync_log = <<>>
    /\ stats = NoStats
    /\ summary = <<>>
    /\ second_run = FALSE
    /\ first_doc = <<>>

SpecNormalize == InitNormalize /\ [][Normalize]_vars

-----------------------------------------------------------------------------
(* Properties of the hierarchical locator *)

SetMax(S) == CHOOSE x \in S : \A y \in S : y <= x

SetMin(S) == CHOOSE x \in S : \A y \in S : x <= y

\* The rows after row_idx that satisfy the constraint
MatchesAfter(sheet, row_idx, constraint) ==
    { r \in (row_idx + 1)..max_row(sheet) : MatchesConstraint(sheet, r, constraint) }

PrevAnchor(matched, i) == IF i = 1 THEN 0 ELSE matched[i - 1]

BoundaryRows(sheet, anchor) ==
    { r \in (anchor + 1)..max_row(sheet) :
        /\ sheet[r].text # None
        /\ get_outline_level(sheet[r]) <= get_outline_level(sheet[anchor]) }

\* C2: span boundary.  No row returned by find_items lies at or after a
\* non-blank row that follows the anchor with outline level <= the anchor's.
C2_SpanBoundary ==
    pc = "indexed" =>
        \A n \in DOMAIN calls :
            calls[n].parent_row # NoRow =>
                \A b \in BoundaryRows(ws, calls[n].parent_row) :
                    \A i \in 1..Len(calls[n].items) : calls[n].items[i].row < b

\* C2 witness: leaves were collected, a boundary row follows them, and a
\* non-blank row at the target level lies after the boundary
C2_Witness ==
    /\ pc = "indexed"
    /\ \E n \in DOMAIN calls :
           /\ calls[n].items # <<>>
           /\ \E b \in BoundaryRows(ws, calls[n].parent_row) :
                  \E r \in (b + 1)..max_row(ws) :
                      /\ ws[r].text # None
                      /\ get_outline_level(ws[r]) = TARGET_LEVEL

-----------------------------------------------------------------------------
(* Properties of the update planner *)

\* The index entries of the item's key, on any axis
KeyEntries(item) ==
    IF item.normalized \in DOMAIN item_locations
    THEN item_locations[item.normalized]
    ELSE <<>>

\* The positions of the index entries of the item's key on the item's axis
AxisEntries(item) ==
    { j \in 1..Len(KeyEntries(item)) :
        KeyEntries(item)[j].mohor = MohorName(item.axis) }

\* The source items in planning order; results[i] is the outcome of the i-th
PlannedItems == PlanOrder(items_by_axis)

\* C3: axis-exact matching.  The outcome of a source item is Existing exactly
\* when the index holds an entry of its normalized key on its own axis, and
\* every target row of an Existing outcome is the row of such an entry;
\* entries of the key on another axis are not used.
C3_AxisExactMatching ==
    pc = "planned" =>
        /\ Len(results) = Len(PlannedItems)
        /\ \A i \in 1..Len(results) :
               LET item == PlannedItems[i]
               IN  /\ results[i].status = "existing" <=> AxisEntries(item) # {}
                   /\ results[i].status = "existing" =>
                          /\ results[i].update.mohor = MohorName(item.axis)
                          /\ \A k \in 1..Len(results[i].update.existing_rows) :
                                 \E j \in AxisEntries(item) :
                                     KeyEntries(item)[j].row =
                                         results[i].update.existing_rows[k]

\* C3 witness: an item whose key is indexed on another axis only is not
\* Existing, while another item of the plan is Existing
C3_Witness ==
    /\ pc = "planned"
    /\ \E i, j \in 1..Len(results) :
           /\ KeyEntries(PlannedItems[i]) # <<>>
           /\ AxisEntries(PlannedItems[i]) = {}
           /\ results[i].status # "existing"
           /\ results[j].status = "existing"

\* C4: deficit arithmetic.  An Existing outcome carries a warning exactly
\* when it has fewer target rows than the needed quantity; the warning
\* records needed, available = number of target rows and deficit =
\* max(0, needed - available), the outcome stays Existing, and the plan's
\* warnings are those of the Existing outcomes in order.
C4_DeficitArithmetic ==
    pc = "planned" =>
        /\ \A i \in 1..Len(results) :
               results[i].status = "existing" =>
                   LET u == results[i].update
                       w == results[i].warning
                       available == Len(u.existing_rows)
                   IN  /\ u.needed_quantity = PlannedItems[i].quantity
                       /\ w # <<>> <=> available < u.needed_quantity
                       /\ w # <<>> =>
                              /\ w[1].needed = u.needed_quantity
                              /\ w[1].available = available
                              /\ w[1].deficit =
                                     (IF u.needed_quantity - available > 0
                                      THEN u.needed_quantity - available
                                      ELSE 0)
                              /\ w[1].item = u.item_text
                              /\ w[1].mohor = u.mohor
        /\ LET warned == SelectSeq(results, HasWarning)
           IN  warnings = [i \in 1..Len(warned) |-> warned[i].warning[1]]

\* C4 witness: needed 3 on 2 target rows gives {needed 3, available 2,
\* deficit 1} and the entry is in updates as an existing item
C4_Witness ==
    /\ pc = "planned"
    /\ \E i \in 1..Len(warnings) :
           /\ warnings[i].needed = 3
           /\ warnings[i].available = 2
           /\ warnings[i].deficit = 1
           /\ \E k \in 1..Len(updates) :
                  /\ ~updates[k].is_new_item
                  /\ updates[k].item_text = warnings[i].item
                  /\ updates[k].mohor = warnings[i].mohor
                  /\ Len(updates[k].existing_rows) = 2

\* C5: target rows in document order.  The target rows of an Existing outcome
\* are the rows of all the index entries of the key on the item's axis, each
\* once, in strictly ascending row order.
C5_TargetRowsOrdered ==
    pc = "planned" =>
        \A i \in 1..Len(results) :
            results[i].status = "existing" =>
                LET rows == results[i].update.existing_rows
                    item == PlannedItems[i]
                IN  /\ Len(rows) = Cardinality(AxisEntries(item))
                    /\ { rows[k] : k \in 1..Len(rows) } =
                           { KeyEntries(item)[j].row : j \in AxisEntries(item) }
                    /\ \A k \in 1..(Len(rows) - 1) : rows[k] < rows[k + 1]

\* C5 witness: an Existing outcome on two rows that are not adjacent
C5_Witness ==
    /\ pc = "planned"
    /\ \E i \in 1..Len(results) :
           /\ results[i].status = "existing"
           /\ Len(results[i].update.existing_rows) = 2
           /\ results[i].update.existing_rows[2] >
                  results[i].update.existing_rows[1] + 1

\* The rows of the section under the anchor: the rows after it up to the
\* first row whose outline level is <= the anchor's level
SectionRows(sheet, anchor) ==
    { r \in (anchor + 1)..max_row(sheet) :
        \A q \in (anchor + 1)..r :
            get_outline_level(sheet[q]) > get_outline_level(sheet[anchor]) }

\* The target-level rows of the section the indexer resolved for axis n
SectionTargetRows(n) ==
    IF calls[n].parent_row = NoRow THEN {}
    ELSE { r \in SectionRows(ws, calls[n].parent_row) :
             get_outline_level(ws[r]) = TARGET_LEVEL }

\* C6: a source item with no same-axis candidate in the index yields a New
\* outcome anchored on the last target-level row of its axis's resolved
\* section when the section has one, and an Unresolvable outcome with a
\* reason when the path does not resolve or the section has no such row.
C6_NewAnchor ==
    pc = "planned" =>
        \A i \in 1..Len(results) :
            LET item == PlannedItems[i]
                rows == SectionTargetRows(item.axis)
            IN  AxisEntries(item) = {} =>
                    IF rows # {}
                    THEN /\ results[i].status = "new"
                         /\ results[i].update.is_new_item
                         /\ results[i].update.existing_rows = <<SetMax(rows)>>
                    ELSE /\ results[i].status = "not_found"
                         /\ results[i].error.reason # ""

\* C6 witness: one item is New in a section with two or more target-level
\* rows and another item of the plan is Unresolvable
C6_Witness ==
    /\ pc = "planned"
    /\ \E i, j \in 1..Len(results) :
           /\ results[i].status = "new"
           /\ Cardinality(SectionTargetRows(PlannedItems[i].axis)) >= 2
           /\ results[j].status = "not_found"

\* C10: the planner classifies every axis-classified source item into exactly
\* one of Existing, New and Unresolvable: every item has one outcome, the
\* update entries plus the not-found entries number the axis-classified
\* items, and every warning belongs to an Existing entry.
C10_PlannerPartition ==
    pc = "planned" =>
        /\ Len(results) = Len(PlannedItems)
        /\ \A i \in 1..Len(results) :
               results[i].status \in {"existing", "new", "not_found"}
        /\ Len(updates) + Len(not_found) = Len(PlannedItems)
        /\ Len(updates) = Cardinality({ i \in 1..Len(results) : IsUpdate(results[i]) })
        /\ Len(not_found) =
               Cardinality({ i \in 1..Len(results) : IsNotFound(results[i]) })
        /\ Len(warnings) <=
               Cardinality({ k \in 1..Len(updates) : ~updates[k].is_new_item })
        /\ \A i \in 1..Len(warnings) :
               \E k \in 1..Len(updates) :
                   /\ ~updates[k].is_new_item
                   /\ updates[k].mohor = warnings[i].mohor
                   /\ updates[k].item_text = warnings[i].item
                   /\ updates[k].needed_quantity = warnings[i].needed
                   /\ Len(updates[k].existing_rows) = warnings[i].available

\* C10 witness: a plan of two items, one Existing with a warning or New, the
\* other Unresolvable
C10_Witness ==
    /\ pc = "planned"
    /\ Len(PlannedItems) = 2
    /\ Len(updates) = 1
    /\ Len(not_found) = 1
    /\ Len(warnings) = 1

-----------------------------------------------------------------------------
(* Properties of the source extraction *)

AxisPrefix == <<"A", "X", "I", "S">>

SPrefix == <<"S">>

\* The normalized text of the c-th axis search column of the row
NormCell(row_idx, c) ==
    normalize_pnt_axis(PntCell(pnt, row_idx, AXIS_SEARCH_COLS[c]))

\* The in-range axes whose pattern occurs in the c-th search column
ColumnAxes(row_idx, c, prefix) ==
    { n \in AxisRange : Contains(prefix \o Str(n), NormCell(row_idx, c)) }

\* The search columns of the row that hold a pattern of an in-range axis
HitColumns(row_idx, prefix) ==
    { c \in 1..Len(AXIS_SEARCH_COLS) : ColumnAxes(row_idx, c, prefix) # {} }

\* The lowest axis of the first column holding one, none when no column does
FirstHit(row_idx, prefix) ==
    IF HitColumns(row_idx, prefix) = {} THEN NoAxis
    ELSE SetMin(ColumnAxes(row_idx, SetMin(HitColumns(row_idx, prefix)), prefix))

AxisLogged == pc \in {"extracted", "error"}

\* C7: axis priority.  When any search column holds an AXIS-prefixed axis in
\* range the extractor returns the axis of the AXIS scan, whatever S matches
\* other columns hold; the result of the S scan is returned only when no
\* column matches in the AXIS pass.
C7_AxisPriority ==
    AxisLogged =>
        \A k \in 1..Len(axis_log) :
            LET row_idx == axis_log[k].row
            IN  IF HitColumns(row_idx, AxisPrefix) # {}
                THEN axis_log[k].axis = FirstHit(row_idx, AxisPrefix)
                ELSE axis_log[k].axis = FirstHit(row_idx, SPrefix)

\* C7 witness: a row with an S match for one axis in an earlier column and
\* an AXIS match for another axis in a later column
C7_Witness ==
    /\ pc = "extracted"
    /\ \E k \in 1..Len(axis_log) :
           LET row_idx == axis_log[k].row
           IN  /\ HitColumns(row_idx, AxisPrefix) # {}
               /\ HitColumns(row_idx, SPrefix) # {}
               /\ SetMin(HitColumns(row_idx, SPrefix)) <
                      SetMin(HitColumns(row_idx, AxisPrefix))
               /\ FirstHit(row_idx, SPrefix) # FirstHit(row_idx, AxisPrefix)
               /\ axis_log[k].axis = FirstHit(row_idx, AxisPrefix)

\* The source rows of the configured range
SourceRows == ROW_START..(ROW_END - 1)

\* The item cell of the row holds text ("if not item_value" is false)
HasItemText(row_idx) ==
    PntCell(pnt, row_idx, ITEM_COL) \notin {None, <<>>}

\* The item text of the row is non-empty after normalization
HasNormalizedText(row_idx) ==
    /\ HasItemText(row_idx)
    /\ normalize_standard(
           multiline_to_single(Strip(PntCell(pnt, row_idx, ITEM_COL)))) # <<>>

\* The axis extract_from_row returned for the row
LoggedAxis(row_idx) ==
    LET ks == { k \in 1..Len(axis_log) : axis_log[k].row = row_idx }
    IN  IF ks = {} THEN NoAxis ELSE axis_log[CHOOSE k \in ks : TRUE].axis

UnidentifiedAt(row_idx) ==
    { k \in 1..Len(unidentified) : unidentified[k].row = row_idx }

GroupedAt(row_idx) ==
    { <<g, k>> \in (1..Len(items_by_axis)) \X (1..(ROW_END - ROW_START)) :
        /\ k <= Len(items_by_axis[g].items)
        /\ items_by_axis[g].items[k].pnt_row = row_idx }

\* C8 as claimed: every source row of the range with non-empty item text and
\* no resolvable axis appears exactly once in the unidentified list and never
\* in the axis-grouped items.
C8_QuarantineOfItemText ==
    pc = "extracted" =>
        \A row_idx \in SourceRows :
            (HasItemText(row_idx) /\ LoggedAxis(row_idx) = NoAxis) =>
                /\ Cardinality(UnidentifiedAt(row_idx)) = 1
                /\ GroupedAt(row_idx) = {}

\* C8 amended: every source row of the range whose item text is non-empty
\* after normalization and that has no resolvable axis appears exactly once in
\* the unidentified list and never in the axis-grouped items, from which alone
\* the plan is built; the unidentified list holds no other row, and a row
\* whose item text is only whitespace is in neither list.
C8_QuarantineCompleteness ==
    pc = "extracted" =>
        /\ \A row_idx \in SourceRows :
               (HasNormalizedText(row_idx) /\ LoggedAxis(row_idx) = NoAxis) =>
                   /\ Cardinality(UnidentifiedAt(row_idx)) = 1
                   /\ GroupedAt(row_idx) = {}
        /\ \A k \in 1..Len(unidentified) :
               /\ unidentified[k].row \in SourceRows
               /\ HasNormalizedText(unidentified[k].row)
               /\ LoggedAxis(unidentified[k].row) = NoAxis
        /\ \A row_idx \in SourceRows :
               (HasItemText(row_idx) /\ ~HasNormalizedText(row_idx)) =>
                   /\ UnidentifiedAt(row_idx) = {}
                   /\ GroupedAt(row_idx) = {}
        /\ \A g \in 1..Len(items_by_axis) :
               \A k \in 1..Len(items_by_axis[g].items) :
                   /\ items_by_axis[g].axis # NoAxis
                   /\ items_by_axis[g].items[k].axis = items_by_axis[g].axis

\* C8 witness: one row without axis is in the unidentified list while another
\* row is grouped under its axis
C8_Witness ==
    /\ pc = "extracted"
    /\ \E row_idx \in SourceRows :
           /\ HasNormalizedText(row_idx)
           /\ LoggedAxis(row_idx) = NoAxis
           /\ Cardinality(UnidentifiedAt(row_idx)) = 1
    /\ items_by_axis # <<>>

\* The characters are all decimal digits
AllDigits(t) == \A i \in 1..Len(t) : \E d \in 0..9 : t[i] = Digit(d)

DigitValue(c) == CHOOSE d \in 0..9 : c = Digit(d)

\* int(t) of a non-empty string of digits
RECURSIVE ParseNat(_)
ParseNat(t) ==
    IF Len(t) = 1 THEN DigitValue(t[1])
    ELSE 10 * ParseNat(SubSeq(t, 1, Len(t) - 1)) + DigitValue(t[Len(t)])

HasPrefix(prefix, t) ==
    Len(t) > Len(prefix) /\ SubSeq(t, 1, Len(prefix)) = prefix

\* The axis a cell names when the cell is an axis marker (AXIS<number> or
\* S<number> after normalization), none otherwise
MarkerOf(t) ==
    LET rest(prefix) == SubSeq(t, Len(prefix) + 1, Len(t))
    IN  IF HasPrefix(AxisPrefix, t) /\ AllDigits(rest(AxisPrefix))
        THEN ParseNat(rest(AxisPrefix))
        ELSE IF HasPrefix(SPrefix, t) /\ AllDigits(rest(SPrefix))
        THEN ParseNat(rest(SPrefix))
        ELSE NoAxis

\* The axes named by the axis markers of the row
RowMarkers(row_idx) ==
    { MarkerOf(NormCell(row_idx, c)) : c \in 1..Len(AXIS_SEARCH_COLS) } \ {NoAxis}

\* All axis markers of the row name axes outside the configured range
OnlyOutOfRangeMarkers(row_idx) ==
    /\ RowMarkers(row_idx) # {}
    /\ RowMarkers(row_idx) \cap AxisRange = {}

\* C9 as claimed: the extractor returns none or an axis of the range, and a
\* row whose only axis markers name axes outside the range gets no axis and
\* is in the unidentified list.
C9_OutOfRangeMarkerGetsNoAxis ==
    AxisLogged =>
        \A k \in 1..Len(axis_log) :
            /\ axis_log[k].axis \in AxisRange \cup {NoAxis}
            /\ OnlyOutOfRangeMarkers(axis_log[k].row) =>
                   /\ axis_log[k].axis = NoAxis
                   /\ (pc = "extracted" /\ HasNormalizedText(axis_log[k].row)) =>
                          UnidentifiedAt(axis_log[k].row) # {}

\* C9 amended: the extractor returns none or an axis of the range; it returns
\* none exactly when no search column contains, after normalization, the text
\* AXIS<n> or S<n> for an axis n of the range, and such a row with item text
\* is in the unidentified list; a returned axis is one whose AXIS<n> or S<n>
\* text occurs in a search column, also inside the marker of a larger number.
C9_AxisInRange ==
    AxisLogged =>
        \A k \in 1..Len(axis_log) :
            LET row_idx == axis_log[k].row
                axis == axis_log[k].axis
                hit == HitColumns(row_idx, AxisPrefix) # {}
                           \/ HitColumns(row_idx, SPrefix) # {}
            IN  /\ axis \in AxisRange \cup {NoAxis}
                /\ axis = NoAxis <=> ~hit
                /\ axis # NoAxis =>
                       \E c \in 1..Len(AXIS_SEARCH_COLS) :
                           axis \in ColumnAxes(row_idx, c, AxisPrefix)
                                        \cup ColumnAxes(row_idx, c, SPrefix)
                /\ (axis = NoAxis /\ pc = "extracted"
                        /\ HasNormalizedText(row_idx)) =>
                       UnidentifiedAt(row_idx) # {}

\* C9 witness: a row whose only marker names the first axis beyond the range
\* got no axis and is in the unidentified list
C9_Witness ==
    /\ pc = "extracted"
    /\ \E k \in 1..Len(axis_log) :
           /\ OnlyOutOfRangeMarkers(axis_log[k].row)
           /\ AXIS_RANGE_END \in RowMarkers(axis_log[k].row)
           /\ axis_log[k].axis = NoAxis
           /\ UnidentifiedAt(axis_log[k].row) # {}

-----------------------------------------------------------------------------
(* Properties of the runs *)

\* The run has ended: it returned, or an exception of update_file left it
RunEnded == pc \in {"done", "sync_failed"}

\* C11 (as claimed): whenever planning has succeeded, the run produces the
\* summary, whether or not the synchronization is attempted and whether or
\* not it succeeds: a run that ended after its planning has a summary.
C11_SummaryAfterPlanning == RunEnded => summary # <<>>

\* C12: planning mutates neither the target document nor the structure
\* index, and a dry run discovers, plans and returns the plan without ever
\* entering the synchronizer: the steps after discovery leave the index
\* alone, the extraction and planning steps and every step of a dry run
\* leave the PMS file alone, and a dry run ends with the planner's plan and
\* an empty synchronizer log.
C12_PlanningIsReadOnly ==
    [][ /\ pc \in {"start", "indexed", "extracted"} \/ dry_run
           => ws' = ws /\ mtime' = mtime
        /\ pc \in {"indexed", "extracted"}
           => item_locations' = item_locations /\ cache' = cache
        /\ dry_run => sync_log' = <<>> /\ stats' = NoStats
        /\ dry_run /\ pc' = "done"
           => /\ updates' = plan_updates(results').updates
              /\ summary' = <<final_results(updates', not_found', warnings',
                                            unidentified', TRUE)>> ]_vars

\* A dry run whose plan is not empty has ended
C12_Witness ==
    /\ dry_run
    /\ pc = "done"
    /\ updates # <<>>
    /\ \E k \in 1..Len(updates) : updates[k].needed_quantity > 0
    /\ sync_log = <<>>

\* The orders in which the axes of the range can be visited
AxisOrders ==
    { o \in [1..Cardinality(AxisRange) -> AxisRange] :
        \A i, j \in DOMAIN o : i # j => o[i] # o[j] }

\* _search_all_mohors visiting the axes in the given order
RECURSIVE SearchInOrder(_, _, _)
SearchInOrder(sheet, order, acc) ==
    IF order = <<>> THEN acc
    ELSE LET n == Head(order)
             found == find_items(sheet, get_search_path(n), TARGET_LEVEL)
         IN  SearchInOrder(sheet, Tail(order),
                           IF found.items # <<>>
                           THEN Append(acc, [mohor |-> MohorName(n),
                                             items |-> found.items])
                           ELSE acc)

\* The target items a search result holds for an axis
TargetItemsOf(mohor_results, n) ==
    LET hits == SelectSeq(mohor_results, LAMBDA e : e.mohor = MohorName(n))
    IN  IF hits = <<>> THEN <<>> ELSE hits[1].items

CacheMatches ==
    /\ cache # <<>>
    /\ cache[1].file_hash = get_file_hash(mtime, ws)
    /\ cache[1].sheet_name = PMS_SHEET

\* C14 (as claimed): with caching enabled, whenever the stored fingerprint
\* and sheet name equal the current ones, the cached index is returned and
\* the indexer is not run; otherwise the indexer runs and its result is used.
C14_CacheHitRule ==
    [][ pc = "start" /\ use_cache =>
          IF CacheMatches
          THEN /\ item_locations' = cache[1].item_locations
               /\ ~indexer_ran'
          ELSE /\ indexer_ran'
               /\ item_locations' =
                      PMS_extract_all_items(search_all_mohors(search_calls(ws)))
      ]_vars

\* C15 (as claimed): a second full run with the same source on the document
\* the first run produced inserts no row and leaves the document as the
\* first run left it.
C15_SecondRunChangesNothing ==
    second_run /\ ~dry_run /\ pc = "done" =>
        ws = first_doc /\ stats.inserted = 0

\* The last entry of the synchronizer log
LastLogged == sync_log[Len(sync_log)]

\* C16: a failure while a row is duplicated aborts the synchronization: the
\* plan entries are processed once each in plan order, the entry that raises
\* is the last one processed, every entry is processed when none raises, and
\* the exception leaves update_file and ends the run.
C16_FailureAborts ==
    /\ \A k \in DOMAIN sync_log :
         /\ sync_log[k].entry = k
         /\ sync_log[k].raised => k = Len(sync_log)
         /\ k > 1 => sync_log[k].before = sync_log[k - 1].after
    /\ Len(sync_log) <= Len(updates)
    /\ pc = "sync_failed" <=> sync_log # <<>> /\ LastLogged.raised
    /\ pc \in {"updated", "done"} /\ sync_log # <<>>
       => Len(sync_log) = Len(updates)

\* A failure in an entry that is followed by an entry that needs rows
C16_Witness ==
    /\ pc = "sync_failed"
    /\ Len(sync_log) < Len(updates)
    /\ updates[Len(updates)].needed_quantity > 0

\* C17 (as claimed): after a failure part-way through the synchronization,
\* the row insertions and cell writes applied before the failure remain in
\* the target document.
C17_PartialEditsRemain == pc = "sync_failed" => ws = LastLogged.after

\* C17 (amended): a failure part-way through the synchronization discards
\* the insertions and writes applied before it: the workbook is closed
\* without saving, and the file is what it was before the step.
C17_FailureLeavesFileUnchanged ==
    [][ pc' = "sync_failed" => ws' = ws /\ mtime' = mtime ]_vars

\* A failure after a plan entry was processed completely and after the
\* sheet in Excel was changed
C17_Witness ==
    /\ pc = "sync_failed"
    /\ Len(sync_log) > 1
    /\ sync_log[1].inserted + sync_log[1].updated > 0
    /\ sync_log[1].after # sync_log[1].before
    /\ LastLogged.after # ws
    /\ mtime = 0

\* The last of an entry's existing_rows as planned: the anchor of a New
\* entry, the last target row of an Existing entry
LastPlannedRow(e) == e.update.existing_rows[Len(e.update.existing_rows)]

\* Where row r of the file update_file opened stands in the sheet when the
\* k-th plan entry is processed: every earlier entry moved the rows below
\* its last planned row down by the number of rows it inserted
RECURSIVE RowNow(_, _)
RowNow(r, k) ==
    IF k = 1 THEN r
    ELSE LET p == RowNow(r, k - 1)
             e == sync_log[k - 1]
         IN  IF p > LastPlannedRow(e) THEN p + e.inserted ELSE p

\* The rows of the k-th entry's plan still stand at their planned numbers
PlannedRowsInPlace(k) ==
    \A i \in DOMAIN sync_log[k].update.existing_rows :
        RowNow(sync_log[k].update.existing_rows[i], k)
            = sync_log[k].update.existing_rows[i]

\* The row a New entry creates from a template row
NewItemRow(template, update) ==
    [template EXCEPT !.text = update.a_value, !.date = update.e_value,
                     !.g = update.g_value, !.n = update.n_value]

\* What processing a New entry did to the sheet: needed_quantity rows
\* inserted right after row a, each the row at a with the four columns
\* overwritten, all other rows kept in order, and the count reported
NewEntryDone(e) ==
    LET a == LastPlannedRow(e)
        q == e.update.needed_quantity
    IN  /\ e.inserted = q
        /\ e.after = SubSeq(e.before, 1, a)
                         \o [i \in 1..q |-> NewItemRow(e.before[a], e.update)]
                         \o SubSeq(e.before, a + 1, Len(e.before))

\* The New plan entries processed without a failure
NewEntriesDone ==
    { k \in DOMAIN sync_log :
        sync_log[k].update.is_new_item /\ ~sync_log[k].raised }

\* C18 (as claimed): for a New plan entry with anchor row a and
\* needed_quantity q, exactly q rows are inserted at rows a+1..a+q, right
\* after the anchor row the planner chose, each a copy of that anchor row
\* with the text, date, new-item and numeric columns overwritten, and q is
\* reported.
C18_NewEntryCopiesAnchor ==
    \A k \in NewEntriesDone :
        /\ NewEntryDone(sync_log[k])
        /\ sync_log[k].update.needed_quantity > 0 => PlannedRowsInPlace(k)

\* The part of C18 that holds: the q rows are inserted at rows a+1..a+q as
\* copies of whatever row stands at row a when the entry is processed
C18_NewEntryCopiesRowAtAnchorIndex ==
    \A k \in NewEntriesDone : NewEntryDone(sync_log[k])

\* The Existing plan entries processed without a failure
ExistingEntriesDone ==
    { k \in DOMAIN sync_log :
        ~sync_log[k].update.is_new_item /\ ~sync_log[k].raised }

\* What processing an Existing entry did, given where its target rows stand
\* (at, by position in existing_rows) and which of them are dated (filled):
\* the dated rows are counted as skipped and left as they were, and the rows
\* written are the first needed_quantity of the other target rows, in plan
\* order, followed by the rows inserted for this entry
ExistingEntryDone(e, at, filled) ==
    LET n == Len(e.update.existing_rows)
        empty == SelectSeq([i \in 1..n |-> i], LAMBDA i : i \notin filled)
        reused == [j \in 1..Len(empty) |-> at[empty[j]]]
        created == [j \in 1..e.inserted |-> at[n] + j]
    IN  /\ e.skipped = Cardinality(filled)
        /\ e.written = Take(reused \o created, e.update.needed_quantity)
        /\ \A i \in filled :
             /\ at[i] \notin { e.written[j] : j \in DOMAIN e.written }
             /\ e.after[at[i]] = e.before[at[i]]

\* Where the target rows of the k-th entry stand when it is processed
TargetRowsNow(k) ==
    [i \in DOMAIN sync_log[k].update.existing_rows |->
        RowNow(sync_log[k].update.existing_rows[i], k)]

\* The target rows of the k-th entry that are dated in the given sheet, at
\* the given row numbers
DatedIn(sheet, at) == { i \in DOMAIN at : ~DateEmpty(sheet[at[i]].date) }

\* C19 (as claimed): for an Existing plan entry, the target rows whose date
\* is populated in the document when the entry is processed are never
\* written and are counted as skipped, and the rows written are exactly the
\* first needed_quantity of the empty target rows, in plan order, followed
\* by the rows created for the entry.
C19_DatedRowsNeverWritten ==
    \A k \in ExistingEntriesDone :
        ExistingEntryDone(sync_log[k], TargetRowsNow(k),
                          DatedIn(sync_log[k].before, TargetRowsNow(k)))

\* The part of C19 that holds: the same for the row numbers of the plan and
\* the dates of the file as update_file loaded it
C19_DatedRowNumbersNeverWritten ==
    \A k \in ExistingEntriesDone :
        ExistingEntryDone(sync_log[k], sync_log[k].update.existing_rows,
                          DatedIn(sync_log[1].before,
                                  sync_log[k].update.existing_rows))

\* The row an Existing entry creates from a template row
ExistingItemRow(template, update) ==
    [template EXCEPT !.text = update.a_value, !.date = update.e_value,
                     !.n = update.n_value]

\* What an Existing entry inserted, given where its target rows stand (at)
\* and which of them are dated (filled): max(0, needed_quantity - empty
\* target rows) rows, made from the last target row and standing right
\* after it, the rows below keeping their order, so that the empty and the
\* created rows together number at least needed_quantity
ExistingEntryInserted(e, at, filled) ==
    LET n == Len(e.update.existing_rows)
        needed == e.update.needed_quantity
        available == n - Cardinality(filled)
        deficit == IF needed - available > 0 THEN needed - available ELSE 0
        last == at[n]
    IN  /\ e.inserted = deficit
        /\ available + e.inserted >= needed
        /\ Len(e.after) = Len(e.before) + deficit
        /\ \A j \in 1..deficit :
             e.after[last + j] = ExistingItemRow(e.before[last], e.update)
        /\ SubSeq(e.after, last + deficit + 1, Len(e.after))
               = SubSeq(e.before, last + 1, Len(e.before))

\* C20 (as claimed): for an Existing plan entry, exactly
\* max(0, needed_quantity - number of empty target rows) rows are inserted,
\* contiguously right after the last target row of the entry, so that the
\* reused and the created rows number at least needed_quantity.
C20_DeficitInsertedAfterLastTarget ==
    \A k \in ExistingEntriesDone :
        ExistingEntryInserted(sync_log[k], TargetRowsNow(k),
                              DatedIn(sync_log[k].before, TargetRowsNow(k)))

\* The part of C20 that holds: the same for the row numbers of the plan and
\* the dates of the file as update_file loaded it
C20_DeficitInsertedAfterLastRowNumber ==
    \A k \in ExistingEntriesDone :
        ExistingEntryInserted(sync_log[k], sync_log[k].update.existing_rows,
                              DatedIn(sync_log[1].before,
                                      sync_log[k].update.existing_rows))

-----------------------------------------------------------------------------
(* Properties of the normalizer *)

\* C21: normalize_standard is idempotent: applied to its own result it
\* returns that result, for every text and for the absent text, which it
\* turns into the empty string.
C21_NormalizeIdempotent ==
    /\ Len(norm_results) = 2 => norm_results[2] = norm_results[1]
    /\ norm_results # <<>> /\ text_in = None => norm_results[1] = <<>>

\* A text with inner whitespace and an upper-case letter normalized twice
C21_Witness ==
    /\ Len(norm_results) = 2
    /\ \E i \in 2..(Len(text_in) - 1) : IsSpace(text_in[i])
    /\ \E i \in DOMAIN text_in : text_in[i] = "P"
    /\ Len(norm_results[1]) = 2

-----------------------------------------------------------------------------
(* Further properties of the hierarchical locator *)

\* No row strictly between rows a and b has an outline level at or above
\* that of row a (a number at most its level)
NestedUnder(a, b) ==
    \A r \in (a + 1)..(b - 1) : ws[r].outlineLevel > ws[a].outlineLevel

\* C22 (as claimed): every path constraint after the first is matched by a
\* row nested in the section of the previous constraint's anchor: no row
\* between two successive anchors has a level <= that of the first of them,
\* and every leaf indexed for an axis lies in that axis's level-1 section.
C22_AnchorsNested ==
    pc = "indexed" =>
        \A n \in AxisRange :
            LET m == calls[n].matched
            IN  /\ \A i \in 1..(Len(m) - 1) : NestedUnder(m[i], m[i + 1])
                /\ \A k \in DOMAIN calls[n].items :
                     NestedUnder(m[1], calls[n].items[k].row)

\* C23 (as claimed): find_last_level5_in_section agrees with find_items on
\* every sheet: for the path of an axis it returns the row of the last item
\* find_items returns, and no row exactly when find_items returns no item.
C23_LastLeafAgrees ==
    pc = "indexed" =>
        \A n \in AxisRange :
            LET items == calls[n].items
                last == find_last_level5_in_section(ws, n)
            IN  IF items = <<>> THEN last = NoRow
                ELSE last = items[Len(items)].row

-----------------------------------------------------------------------------
(* Further properties of the runs *)

\* The row numbers the k-th entry wrote or copied from: the rows it wrote
\* and, when it inserted rows, its template row
RowsUsed(k) ==
    LET e == sync_log[k]
    IN  { e.written[j] : j \in DOMAIN e.written }
            \cup (IF e.inserted > 0 THEN {LastPlannedRow(e)} ELSE {})

\* The rows the k-th entry created
RowsCreated(k) ==
    { LastPlannedRow(sync_log[k]) + j : j \in 1..sync_log[k].inserted }

\* C24 (as claimed): rows inserted for an earlier plan entry never
\* invalidate a later one: every row an entry writes or uses as template
\* is, in the sheet at that moment, one of the entry's own target or anchor
\* rows of the planning snapshot, or a row created for the entry.
C24_EarlierInsertionsHarmless ==
    \A k \in DOMAIN sync_log :
        RowsUsed(k) \subseteq
            { TargetRowsNow(k)[i] : i \in DOMAIN TargetRowsNow(k) }
                \cup RowsCreated(k)


\* C25: when the anchor search resolves the whole path, the anchor is the
\* row that matched the last constraint and the leaf scan starts at the row
\* after it, also when that row is the last of the sheet; the rows matched
\* by successive constraints have strictly increasing numbers.
C25_AnchorAndScanStart ==
    pc = "indexed" =>
        \A n \in AxisRange :
            LET c == calls[n]
                path == get_search_path(n)
            IN  /\ \A i \in 1..(Len(c.matched) - 1) :
                        c.matched[i] < c.matched[i + 1]
                /\ c.parent_row # NoRow <=> Len(c.matched) = Len(path)
                /\ c.parent_row # NoRow =>
                        /\ c.parent_row = c.matched[Len(path)]
                        /\ MatchesConstraint(ws, c.parent_row, path[Len(path)])
                        /\ c.search_start = c.parent_row + 1

C25_Witness ==
    /\ pc = "indexed"
    /\ calls[AXIS_RANGE_START].parent_row = Len(ws)
    /\ calls[AXIS_RANGE_START].search_start = Len(ws) + 1


\* The axis path was not resolved: the sheet ended before the last
\* constraint was matched
Unresolved(n) == Len(calls[n].matched) < Len(get_search_path(n))

\* C26: when the sheet ends before every constraint of an axis path is
\* matched, the anchor search returns (None, None) and the run goes on:
\* find_items returns the empty list and the axis has no entry in the
\* per-axis results nor any location in the index.
C26_UnresolvedAxisContributesNothing ==
    pc = "indexed" =>
        \A n \in AxisRange :
            Unresolved(n) =>
                /\ calls[n].parent_row = NoRow
                /\ calls[n].search_start = NoRow
                /\ calls[n].items = <<>>
                /\ \A i \in DOMAIN all_results :
                        all_results[i].mohor # MohorName(n)
                /\ \A k \in DOMAIN item_locations :
                        \A j \in DOMAIN item_locations[k] :
                            item_locations[k][j].mohor # MohorName(n)

C26_Witness ==
    /\ pc = "indexed"
    /\ Unresolved(AXIS_RANGE_START + 1)
    /\ calls[AXIS_RANGE_START + 1].matched # <<>>
    /\ ~Unresolved(AXIS_RANGE_START)
    /\ all_results # <<>>


\* The rows find_items returned for axis n
ItemRows(n) == { calls[n].items[i].row : i \in DOMAIN calls[n].items }

\* Row r of the sheet has no text
IsBlank(r) == ws[r].text = None

\* Row r is at or above the level of the anchor of axis n
AtOrAboveAnchor(n, r) ==
    ws[r].outlineLevel <= ws[calls[n].parent_row].outlineLevel

\* C27: in the leaf scan a row without text is skipped before its level is
\* looked at: it is never collected, and it never ends the scan whatever
\* its level, so a leaf is collected exactly when no row WITH text at or
\* above the anchor's level precedes it in the scan.
C27_BlankRowsSkipped ==
    pc = "indexed" =>
        \A n \in AxisRange :
            calls[n].parent_row # NoRow =>
                /\ \A r \in ItemRows(n) : ~IsBlank(r)
                /\ \A r \in calls[n].search_start..Len(ws) :
                        (/\ ~IsBlank(r)
                         /\ ws[r].outlineLevel = TARGET_LEVEL
                         /\ \A q \in calls[n].search_start..(r - 1) :
                                IsBlank(q) \/ ~AtOrAboveAnchor(n, q))
                            => r \in ItemRows(n)

C27_Witness ==
    /\ pc = "indexed"
    /\ \E r \in ItemRows(AXIS_RANGE_START) :
          \E q \in calls[AXIS_RANGE_START].search_start..(r - 1) :
              IsBlank(q) /\ AtOrAboveAnchor(AXIS_RANGE_START, q)

\* C28: every row find_items returns is at the target level, lies after
\* the anchor and carries the stripped text of the row; the rows come in
\* ascending order; a row of the span at another level is not collected
\* and does not end the scan.
C28_OnlyTargetLevelRows ==
    pc = "indexed" =>
        \A n \in AxisRange :
            LET items == calls[n].items
            IN  /\ \A i \in DOMAIN items :
                      /\ items[i].level = TARGET_LEVEL
                      /\ ws[items[i].row].outlineLevel = TARGET_LEVEL
                      /\ items[i].row > calls[n].parent_row
                      /\ items[i].text = Strip(ws[items[i].row].text)
                /\ \A i \in 1..(Len(items) - 1) : items[i].row < items[i + 1].row
                /\ calls[n].parent_row # NoRow =>
                      \A r \in calls[n].search_start..Len(ws) :
                          (/\ ~IsBlank(r)
                           /\ ws[r].outlineLevel = TARGET_LEVEL
                           /\ \A q \in calls[n].search_start..(r - 1) :
                                  ~AtOrAboveAnchor(n, q))
                              => r \in ItemRows(n)

C28_Witness ==
    /\ pc = "indexed"
    /\ Len(calls[AXIS_RANGE_START].items) = 2
    /\ \E q \in (calls[AXIS_RANGE_START].items[1].row + 1)
                    ..(calls[AXIS_RANGE_START].items[2].row - 1) :
          ~IsBlank(q) /\ ws[q].outlineLevel > TARGET_LEVEL


-----------------------------------------------------------------------------
(* Further properties of the PNT-G extractor *)

\* C29 (as claimed): a quantity cell that is missing or holds text that is
\* not a number counts as 0 and the extraction goes on with the remaining
\* rows without raising; every extracted item has an integer quantity >= 0.
C29_QuantityNeverRaises ==
    /\ pc # "error"
    /\ \A g \in DOMAIN items_by_axis :
          \A i \in DOMAIN items_by_axis[g].items :
              items_by_axis[g].items[i].quantity \in Nat


-----------------------------------------------------------------------------
(* Further properties of the cache *)

\* What the indexer returns on the sheet
FreshIndex(sheet) == PMS_extract_all_items(search_all_mohors(search_calls(sheet)))

\* C30: over the runs, whenever _load_pms_structure returns the cached
\* index without running the indexer, that index is the one the indexer
\* would build from the sheet as it is now; and once a synchronization has
\* inserted rows, the stored cache no longer matches the file.
C30_CachedIndexIsFresh ==
    [][ /\ (pc = "start" /\ pc' = "indexed" /\ ~indexer_ran')
            => item_locations' = FreshIndex(ws')
        /\ Len(ws') > Len(ws) => ~CacheMatches'
      ]_vars

C30_Witness ==
    /\ second_run
    /\ pc = "indexed"
    /\ ~indexer_ran
    /\ item_locations # <<>>
    /\ item_locations = FreshIndex(ws)

====
